---------------------------- MODULE Spec2Model ----------------------------
(***************************************************************************)
(* A model of multipart.py (defnull/multipart 1.2.0): the push parser      *)
(* PushMultipartParser, its MultipartSegment and the header helpers.       *)
(*                                                                         *)
(* Bytes and characters are one-character strings; byte strings and text   *)
(* are sequences of them.  Offsets are 0-based as in the Python source.    *)
(* An optional value (Python's None) is a sequence of length at most one.  *)
(***************************************************************************)
EXTENDS Integers, Sequences, FiniteSets, TLC

(***************************************************************************)
(* Optional values                                                         *)
(***************************************************************************)
None == <<>>
Some(x) == <<x>>
The(o) == o[1]

\* A local name for a value: With(e, LAMBDA x : F(x)) is F(e), with e written
\* (and evaluated) once
With(value, Body(_)) == Body(value)

(***************************************************************************)
(* Bytes                                                                   *)
(***************************************************************************)
CR == "\r"
LF == "\n"
SP == " "
TAB == "\t"
DASH == "-"
QUOTE == "\""
BACKSLASH == "\\"
\* A byte that is not valid UTF-8 wherever it stands (0xFF).
XFF == "xFF"
\* The grave accent (0x60), which a TLA+ string cannot hold.
GRAVE == "x60"

CRLF == <<CR, LF>>
DASHDASH == <<DASH, DASH>>

UpperLetters ==
  <<"A","B","C","D","E","F","G","H","I","J","K","L","M",
    "N","O","P","Q","R","S","T","U","V","W","X","Y","Z">>
LowerLetters ==
  <<"a","b","c","d","e","f","g","h","i","j","k","l","m",
    "n","o","p","q","r","s","t","u","v","w","x","y","z">>
Digits == <<"0","1","2","3","4","5","6","7","8","9">>

Range(s) == {s[i] : i \in 1..Len(s)}
IndexIn(s, c) == CHOOSE i \in 1..Len(s) : s[i] = c

IsUpper(c) == c \in Range(UpperLetters)
IsLower(c) == c \in Range(LowerLetters)
IsLetter(c) == IsUpper(c) \/ IsLower(c)
IsDigit(c) == c \in Range(Digits)
ToLower(c) == IF IsUpper(c) THEN LowerLetters[IndexIn(UpperLetters, c)] ELSE c
ToUpper(c) == IF IsLower(c) THEN UpperLetters[IndexIn(LowerLetters, c)] ELSE c

\* The characters bytes.strip() and str.strip() remove (of those the model writes).
Whitespace == {SP, TAB, LF, CR}
\* str.isprintable() on ASCII: 0x20 .. 0x7E.
Unprintable == {TAB, LF, CR, XFF}

Min(S) == CHOOSE i \in S : \A j \in S : i <= j
Max(S) == CHOOSE i \in S : \A j \in S : i >= j

(***************************************************************************)
(* Python's sequence operations, for offsets >= 0                          *)
(***************************************************************************)
\* s[i:j]
Slice(s, i, j) ==
  LET hi == IF j > Len(s) THEN Len(s) ELSE j
  IN IF i >= hi THEN <<>> ELSE SubSeq(s, i + 1, hi)

\* s[i:]
From(s, i) == Slice(s, i, Len(s))

\* s.find(sub, start): the lowest index >= start where sub occurs, or -1
Find(s, sub, start) ==
  LET hits == {i \in start..(Len(s) - Len(sub)) : SubSeq(s, i + 1, i + Len(sub)) = sub}
  IN IF hits = {} THEN -1 ELSE Min(hits)

Contains(s, sub) == Find(s, sub, 0) # -1

\* s.strip()
Strip(s) ==
  LET keep == {i \in 1..Len(s) : s[i] \notin Whitespace}
  IN IF keep = {} THEN <<>> ELSE SubSeq(s, Min(keep), Max(keep))

\* s.lower()
Lowercase(s) == [i \in 1..Len(s) |-> ToLower(s[i])]

\* s.title(): a letter is upper-cased after a non-letter and lower-cased after a letter
Title(s) ==
  [i \in 1..Len(s) |->
     IF i > 1 /\ IsLetter(s[i - 1]) THEN ToLower(s[i]) ELSE ToUpper(s[i])]

\* s.replace(old, new), for a non-empty old
RECURSIVE Replace(_, _, _)
Replace(s, old, new) ==
  With(Find(s, old, 0), LAMBDA i :
    IF i = -1 THEN s
    ELSE Slice(s, 0, i) \o new \o Replace(From(s, i + Len(old)), old, new))

\* s.isdecimal()
IsDecimal(s) == s # <<>> /\ \A i \in 1..Len(s) : IsDigit(s[i])

\* int(s), for a decimal s
RECURSIVE ToInt(_)
ToInt(s) ==
  IF s = <<>> THEN 0
  ELSE 10 * ToInt(SubSeq(s, 1, Len(s) - 1)) + (IndexIn(Digits, s[Len(s)]) - 1)


(***************************************************************************)
(* Header option parsing: _token, _value, _option, _re_option              *)
(***************************************************************************)
\* _token: letters, digits and -!#$%&'*+.^_|~ and the grave accent
TokenChars ==
  Range(UpperLetters) \cup Range(LowerLetters) \cup Range(Digits) \cup
  {"-", "!", "#", "$", "%", "&", "'", "*", "+", ".", "^", "_", GRAVE, "|", "~"}

\* The first index >= p whose character is not in S (the end of a greedy run), or Len(s)
RunEnd(s, p, S) ==
  Min({i \in p..(Len(s) - 1) : s[i + 1] \notin S} \cup {Len(s)})

\* The first index >= p whose character is in S, or Len(s)
FirstIn(s, p, S) ==
  Min({i \in p..(Len(s) - 1) : s[i + 1] \in S} \cup {Len(s)})

\* "(?:\\.|[^"])*" from p, the index after the opening quote, with the regex
\* engine's order of attempts: the index after the closing quote, or -1
RECURSIVE SlowQuotedEnd(_, _)
SlowQuotedEnd(s, p) ==
  With(IF p + 1 < Len(s) /\ s[p + 1] = BACKSLASH /\ s[p + 2] # LF
       THEN SlowQuotedEnd(s, p + 2) ELSE -1, LAMBDA esc :
    IF esc # -1 THEN esc
    ELSE
    With(IF p < Len(s) /\ s[p + 1] # QUOTE
         THEN SlowQuotedEnd(s, p + 1) ELSE -1, LAMBDA any :
      IF any # -1 THEN any
      ELSE IF p < Len(s) /\ s[p + 1] = QUOTE THEN p + 1
      ELSE -1))

\* _value matched at p: "[^\\"]*" | token | "(?:\\.|[^"])*"; the end index, or -1
ValueEnd(s, p) ==
  With(p < Len(s) /\ s[p + 1] = QUOTE, LAMBDA quoted :
  With(FirstIn(s, p + 1, {BACKSLASH, QUOTE}), LAMBDA e1 :
  With(RunEnd(s, p, TokenChars), LAMBDA e2 :
    IF quoted /\ e1 < Len(s) /\ s[e1 + 1] = QUOTE THEN e1 + 1
    ELSE IF e2 > p THEN e2
    ELSE IF quoted THEN SlowQuotedEnd(s, p + 1)
    ELSE -1)))

\* _option matched at p: '; *(token) *= *(value)'
NoOption(p) == [ok |-> FALSE, key |-> <<>>, val |-> <<>>, end |-> p]

OptionAt(s, p) ==
  IF ~(p < Len(s) /\ s[p + 1] = ";") THEN NoOption(p)
  ELSE
  With(RunEnd(s, p + 1, {SP}), LAMBDA k0 :
  With(RunEnd(s, k0, TokenChars), LAMBDA k1 :
  With(RunEnd(s, k1, {SP}), LAMBDA eq :
    IF ~(k1 > k0 /\ eq < Len(s) /\ s[eq + 1] = "=") THEN NoOption(p)
    ELSE
    With(RunEnd(s, eq + 1, {SP}), LAMBDA v0 :
    With(ValueEnd(s, v0), LAMBDA v1 :
      IF v1 = -1 THEN NoOption(p)
      ELSE [ok |-> TRUE, key |-> Slice(s, k0, k1), val |-> Slice(s, v0, v1),
            end |-> v1])))))

\* _re_option.findall(s, p): the (key, value) pairs of the matches, left to right
RECURSIVE FindAllOptions(_, _)
FindAllOptions(s, p) ==
  IF p >= Len(s) THEN <<>>
  ELSE With(OptionAt(s, p), LAMBDA m :
         IF m.ok THEN << <<m.key, m.val>> >> \o FindAllOptions(s, m.end)
         ELSE FindAllOptions(s, p + 1))

\* An options dict is the sequence of its assignments; a later one overwrites.
DictHas(d, key) == \E i \in 1..Len(d) : d[i][1] = key
DictGet(d, key, default) ==
  IF DictHas(d, key) THEN Some(d[Max({i \in 1..Len(d) : d[i][1] = key})][2])
  ELSE default

\* The part of s after its last backslash: s.split("\\")[-1], s.rpartition("\\")[-1]
AfterLastBackslash(s) ==
  LET at == {i \in 1..Len(s) : s[i] = BACKSLASH}
  IN IF at = {} THEN s ELSE Slice(s, Max(at), Len(s))

\* The ie6 test: val[1:3] == ":\\" or val[:2] == "\\\\"
IsFullPath(val) ==
  \/ Slice(val, 1, 3) = <<":", BACKSLASH>>
  \/ Slice(val, 0, 2) = <<BACKSLASH, BACKSLASH>>

PercentDecode(val) ==
  Replace(Replace(Replace(val, <<"%", "0", "D">>, <<CR>>),
                  <<"%", "0", "A">>, <<LF>>),
          <<"%", "2", "2">>, <<QUOTE>>)

BackslashDecode(val) ==
  Replace(Replace(val, <<BACKSLASH, BACKSLASH>>, <<BACKSLASH>>),
          <<BACKSLASH, QUOTE>>, <<QUOTE>>)

header_quote(val) ==
  IF val # <<>> /\ \A i \in 1..Len(val) : val[i] \in TokenChars THEN val
  ELSE <<QUOTE>>
       \o Replace(Replace(val, <<BACKSLASH>>, <<BACKSLASH, BACKSLASH>>),
                  <<QUOTE>>, <<BACKSLASH, QUOTE>>)
       \o <<QUOTE>>

header_unquote(val, filename) ==
  IF val[1] = QUOTE /\ val[Len(val)] = QUOTE
  THEN With(Slice(val, 1, Len(val) - 1), LAMBDA inner :
         BackslashDecode(IF filename /\ IsFullPath(inner)
                         THEN AfterLastBackslash(inner) ELSE inner))
  ELSE val

\* content_disposition_quote that leaves the double quote as it is
content_disposition_quote_plain(val) ==
  <<QUOTE>>
  \o Replace(Replace(val, <<CR>>, <<"%", "0", "D">>), <<LF>>, <<"%", "0", "A">>)
  \o <<QUOTE>>

content_disposition_quote(val) ==
  <<QUOTE>>
  \o Replace(Replace(Replace(val, <<CR>>, <<"%", "0", "D">>),
                     <<LF>>, <<"%", "0", "A">>),
             <<QUOTE>>, <<"%", "2", "2">>)
  \o <<QUOTE>>

content_disposition_unquote(val, filename) ==
  IF val[1] = QUOTE /\ val[Len(val)] = QUOTE
  THEN With(Slice(val, 1, Len(val) - 1), LAMBDA inner :
       With(IF Contains(inner, <<BACKSLASH, QUOTE>>) THEN BackslashDecode(inner)
            ELSE IF Contains(inner, <<"%">>) THEN PercentDecode(inner)
            ELSE inner, LAMBDA dec :
         IF filename /\ IsFullPath(dec) THEN AfterLastBackslash(dec) ELSE dec))
  ELSE IF Contains(val, <<"%">>) THEN PercentDecode(val)
  ELSE val

STR_filename == <<"f", "i", "l", "e", "n", "a", "m", "e">>

\* unquote(val, filename), for the function unquote names
Unquote(unquote, val, filename) ==
  IF unquote = "content_disposition_unquote"
  THEN content_disposition_unquote(val, filename)
  ELSE header_unquote(val, filename)

\* parse_options_header(header, unquote = ...): the primary value and the options
parse_options_header(header, unquote) ==
  With(Find(header, <<";">>, 0), LAMBDA i :
    IF i < 0 THEN [primary |-> Strip(Lowercase(header)), options |-> <<>>]
    ELSE
    With(FindAllOptions(header, i), LAMBDA found :
      [primary |-> Strip(Lowercase(Slice(header, 0, i))),
       options |-> [k \in 1..Len(found) |->
                      With(Lowercase(found[k][1]), LAMBDA key :
                        <<key, Unquote(unquote, found[k][2], key = STR_filename)>>)]]))

(***************************************************************************)
(* Exceptions                                                              *)
(***************************************************************************)
Error(type, msg) == [type |-> type, msg |-> msg]

ParserError(msg) == Error("ParserError", msg)
StrictParserError(msg) == Error("StrictParserError", msg)
ParserLimitReached(msg) == Error("ParserLimitReached", msg)
ParserStateError(msg) == Error("ParserStateError", msg)
AssertionError == Error("AssertionError", "")

\* isinstance(err, ParserError): StrictParserError is a subclass of ParserError
IsParserError(err) == err.type \in {"ParserError", "StrictParserError"}

(***************************************************************************)
(* Parser states                                                           *)
(***************************************************************************)
PREAMBLE == "PREAMBLE"
HEADER == "HEADER"
BODY == "BODY"
COMPLETE == "END"

\* math.inf, the default of max_segment_size and max_segment_count
inf == 1000000

(***************************************************************************)
(* PushMultipartParser.__init__                                            *)
(*                                                                         *)
(* The parser object is a record of its attributes.  The segments it has   *)
(* created live in a heap (a sequence of segment records, in creation      *)
(* order); _current is None or the heap index of the segment in flight.    *)
(***************************************************************************)
NewParser(boundary, content_length, max_header_size, max_header_count, max_segment_size, max_segment_count, strict) ==
  [boundary          |-> boundary,
   content_length    |-> content_length,
   max_header_size   |-> max_header_size,
   max_header_count  |-> max_header_count,
   max_segment_size  |-> max_segment_size,
   max_segment_count |-> max_segment_count,
   strict            |-> strict,
   delimiter         |-> CRLF \o DASHDASH \o boundary,
   parsed            |-> 0,
   fieldcount        |-> 0,
   buffer            |-> <<>>,
   current           |-> None,
   state             |-> PREAMBLE,
   closed            |-> FALSE,
   error             |-> None,
   yielded           |-> <<>>,
   moved             |-> <<>>]

(***************************************************************************)
(* MultipartSegment                                                        *)
(***************************************************************************)
\* MultipartSegment.__init__ after the segment count check
NewSegment(parser) ==
  [headerlist   |-> <<>>,
   size         |-> 0,
   complete     |-> FALSE,
   name         |-> None,
   filename     |-> None,
   content_type |-> None,
   charset      |-> None,
   clen         |-> -1,
   size_limit   |-> parser.max_segment_size]

STR_colon_space == <<":", SP>>
STR_Content_Disposition ==
  <<"C","o","n","t","e","n","t","-","D","i","s","p","o","s","i","t","i","o","n">>
STR_Content_Type == <<"C","o","n","t","e","n","t","-","T","y","p","e">>
STR_Content_Length == <<"C","o","n","t","e","n","t","-","L","e","n","g","t","h">>
STR_form_data == <<"f","o","r","m","-","d","a","t","a">>
STR_name == <<"n","a","m","e">>
STR_charset == <<"c","h","a","r","s","e","t">>

\* bytes.decode(header_charset) fails on a byte that is no UTF-8
Decodes(line) == \A i \in 1..Len(line) : line[i] # XFF
\* str.isascii(): every character the model decodes is ASCII
IsAscii(text) == \A i \in 1..Len(text) : text[i] # XFF
IsPrintable(text) == \A i \in 1..Len(text) : text[i] \notin Unprintable

\* Folded without the space between the previous header and the continuation
FoldedTight(seg, line) ==
  With(seg.headerlist[Len(seg.headerlist)], LAMBDA last :
    last[1] \o STR_colon_space \o last[2] \o Strip(line))

\* prev + b" " + line.strip(), for prev = ": ".join(the last header)
Folded(seg, line) ==
  With(seg.headerlist[Len(seg.headerlist)], LAMBDA last :
    last[1] \o STR_colon_space \o last[2] \o <<SP>> \o Strip(line))

\* Popped that leaves the previous header in the list
PoppedKept(seg) == seg

\* self.headerlist.pop()
Popped(seg) == [seg EXCEPT !.headerlist = SubSeq(@, 1, Len(@) - 1)]

\* MultipartSegment._add_headerline: [err, seg]
add_headerline(seg, parser, line) ==
  With(line[1] \in {SP, TAB}, LAMBDA cont :
    IF cont /\ (seg.headerlist = <<>> \/ parser.strict)
    THEN [err |-> Some(StrictParserError("Unexpected segment header continuation")),
          seg |-> seg]
    ELSE
    With(IF cont THEN Folded(seg, line) ELSE line, LAMBDA full :
    With(IF cont THEN Popped(seg) ELSE seg, LAMBDA popped :
      IF Len(full) > parser.max_header_size
      THEN [err |-> Some(ParserLimitReached("Maximum segment header length exceeded")),
            seg |-> popped]
      ELSE IF Len(popped.headerlist) >= parser.max_header_count
      THEN [err |-> Some(ParserLimitReached("Maximum segment header count exceeded")),
            seg |-> popped]
      ELSE IF ~Decodes(full)
      THEN [err |-> Some(ParserError("Segment header failed to decode")), seg |-> popped]
      ELSE
      With(Find(full, <<":">>, 0), LAMBDA colon :
      With(Strip(IF colon = -1 THEN full ELSE Slice(full, 0, colon)), LAMBDA name :
        IF colon = -1 \/ name = <<>>
        THEN [err |-> Some(ParserError("Malformed segment header")), seg |-> popped]
        ELSE IF SP \in Range(name) \/ ~IsAscii(name) \/ ~IsPrintable(name)
        THEN [err |-> Some(ParserError("Invalid segment header name")), seg |-> popped]
        ELSE [err |-> None,
              seg |-> [popped EXCEPT !.headerlist =
                         Append(@, <<Title(name), Strip(From(full, colon + 1))>>)]])))))

\* DispositionError that accepts every disposition type
DispositionErrorAnyType(r, parser) ==
  IF ~DictHas(r.options, STR_name) /\ parser.strict
  THEN Some(StrictParserError(
              "Invalid Content-Disposition segment header: Missing name option"))
  ELSE None

\* The two checks of _close_headers on a parsed Content-Disposition (dtype, args)
DispositionError(r, parser) ==
  IF r.primary # STR_form_data
  THEN Some(ParserError("Invalid Content-Disposition segment header: Wrong type"))
  ELSE IF ~DictHas(r.options, STR_name) /\ parser.strict
  THEN Some(StrictParserError(
              "Invalid Content-Disposition segment header: Missing name option"))
  ELSE None

\* One turn of the loop of _close_headers, for the header (h, v): [err, seg]
close_header(seg, parser, h, v) ==
  IF h = STR_Content_Disposition
  THEN With(parse_options_header(v, "content_disposition_unquote"), LAMBDA r :
         IF DispositionError(r, parser) # None
         THEN [err |-> DispositionError(r, parser), seg |-> seg]
         ELSE [err |-> None,
               seg |-> [seg EXCEPT !.name = DictGet(r.options, STR_name, Some(<<>>)),
                                   !.filename = DictGet(r.options, STR_filename, None)]])
  ELSE IF h = STR_Content_Type
  THEN With(parse_options_header(v, "header_unquote"), LAMBDA r :
         [err |-> None,
          seg |-> [seg EXCEPT !.content_type = Some(r.primary),
                              !.charset = DictGet(r.options, STR_charset, None)]])
  ELSE IF h = STR_Content_Length /\ IsDecimal(v)
  THEN [err |-> None, seg |-> [seg EXCEPT !.clen = ToInt(v)]]
  ELSE [err |-> None, seg |-> seg]

RECURSIVE close_headers_from(_, _, _)
close_headers_from(seg, parser, i) ==
  IF i > Len(seg.headerlist)
  THEN IF seg.name = None
       THEN [err |-> Some(ParserError("Missing Content-Disposition segment header")),
             seg |-> seg]
       ELSE [err |-> None, seg |-> seg]
  ELSE With(close_header(seg, parser, seg.headerlist[i][1], seg.headerlist[i][2]),
            LAMBDA r :
         IF r.err # None THEN r ELSE close_headers_from(r.seg, parser, i + 1))

\* MultipartSegment._close_headers: [err, seg]
close_headers(seg, parser) == close_headers_from(seg, parser, 1)

\* update_size that reports the size limit as a ParserError
update_size_as_format_error(seg, bytecount) ==
  With([seg EXCEPT !.size = @ + bytecount], LAMBDA grown :
    IF grown.clen >= 0 /\ grown.size > grown.clen
    THEN [err |-> Some(ParserError("Segment Content-Length exceeded")), seg |-> grown]
    ELSE IF grown.size > grown.size_limit
    THEN [err |-> Some(ParserError("Maximum segment size exceeded")), seg |-> grown]
    ELSE [err |-> None, seg |-> grown])

\* update_size that counts the bytes twice
update_size_twice(seg, bytecount) ==
  With([seg EXCEPT !.size = @ + bytecount + bytecount], LAMBDA grown :
    IF grown.clen >= 0 /\ grown.size > grown.clen
    THEN [err |-> Some(ParserError("Segment Content-Length exceeded")), seg |-> grown]
    ELSE IF grown.size > grown.size_limit
    THEN [err |-> Some(ParserLimitReached("Maximum segment size exceeded")), seg |-> grown]
    ELSE [err |-> None, seg |-> grown])

\* update_size without the check of the size limit
update_size_unlimited(seg, bytecount) ==
  With([seg EXCEPT !.size = @ + bytecount], LAMBDA grown :
    IF grown.clen >= 0 /\ grown.size > grown.clen
    THEN [err |-> Some(ParserError("Segment Content-Length exceeded")), seg |-> grown]
    ELSE [err |-> None, seg |-> grown])

\* MultipartSegment._update_size: [err, seg]; the size is added before the checks
update_size(seg, bytecount) ==
  With([seg EXCEPT !.size = @ + bytecount], LAMBDA grown :
    IF grown.clen >= 0 /\ grown.size > grown.clen
    THEN [err |-> Some(ParserError("Segment Content-Length exceeded")), seg |-> grown]
    ELSE IF grown.size > grown.size_limit
    THEN [err |-> Some(ParserLimitReached("Maximum segment size exceeded")), seg |-> grown]
    ELSE [err |-> None, seg |-> grown])

\* mark_complete that checks the size and leaves the flag alone
mark_complete_unset(seg) ==
  IF seg.clen >= 0 /\ seg.size # seg.clen
  THEN [err |-> Some(ParserError("Segment size does not match Content-Length header")),
        seg |-> seg]
  ELSE [err |-> None, seg |-> seg]

\* MultipartSegment._mark_complete: [err, seg]
mark_complete(seg) ==
  IF seg.clen >= 0 /\ seg.size # seg.clen
  THEN [err |-> Some(ParserError("Segment size does not match Content-Length header")),
        seg |-> seg]
  ELSE [err |-> None, seg |-> [seg EXCEPT !.complete = TRUE]]

(***************************************************************************)
(* PushMultipartParser.parse: the events and the main loop                 *)
(*                                                                         *)
(* An event is what parse() yields: a segment (by heap index), a body      *)
(* chunk, or None for the end of a segment.  The loop is a generator: the  *)
(* events yielded before an exception have reached the consumer.  A loop   *)
(* result is [p, segs, offset, out, err]: the parser, the heap, the offset *)
(* reached, the events yielded and the exception raised (or None).         *)
(***************************************************************************)
SegmentEvent(i) == [kind |-> "segment", seg |-> i, data |-> <<>>]
DataEvent(data) == [kind |-> "data", seg |-> 0, data |-> data]
EndEvent == [kind |-> "end", seg |-> 0, data |-> <<>>]

\* The parser as the consumer finds it while the generator is suspended at a
\* yield: yielded keeps, for each event of the last call that ran the loop,
\* the state and the current segment as they are at that yield
Yielding(p, segs) ==
  [p EXCEPT !.yielded = Append(@, [state |-> p.state, current |-> p.current,
                                   segment |-> segs[The(p.current)]])]

\* self._state = to: moved keeps, for each assignment to _state in the last
\* call that ran the loop, the state before and after it, the kind of the
\* event yielded last in the call (or "none"), and the number of segments
\* created so far
Moved(p, to, segs, out) ==
  [p EXCEPT !.state = to,
            !.moved = Append(@, [from |-> p.state, to |-> to,
                                 after |-> IF out = <<>> THEN "none"
                                           ELSE out[Len(out)].kind,
                                 events |-> Len(out),
                                 segments |-> Len(segs)])]

Raise(p, segs, offset, out, err) ==
  [p |-> p, segs |-> segs, offset |-> offset, out |-> out, err |-> Some(err)]
Break(p, segs, offset, out) ==
  [p |-> p, segs |-> segs, offset |-> offset, out |-> out, err |-> None]

\* create_segment that checks the count before the new segment is counted
create_segment_late(p, segs) ==
  IF p.fieldcount > p.max_segment_count
  THEN [err |-> Some(ParserLimitReached("Maximum segment count exceeded")),
        p |-> p, segs |-> segs]
  ELSE [err |-> None,
        p |-> [p EXCEPT !.fieldcount = @ + 1, !.current = Some(Len(segs) + 1)],
        segs |-> Append(segs, NewSegment(p))]

\* self._current = MultipartSegment(self): the count check of __init__, then the
\* new segment on the heap: [err, p, segs]
create_segment(p, segs) ==
  IF p.fieldcount + 1 > p.max_segment_count
  THEN [err |-> Some(ParserLimitReached("Maximum segment count exceeded")),
        p |-> p, segs |-> segs]
  ELSE [err |-> None,
        p |-> [p EXCEPT !.fieldcount = @ + 1, !.current = Some(Len(segs) + 1)],
        segs |-> Append(segs, NewSegment(p))]

RECURSIVE Loop(_, _, _, _)

\* NextSegment that leaves the state as it is
NextSegmentStateKept(p, segs, offset, next_start, out) ==
  With(create_segment(p, segs), LAMBDA made :
    IF made.err # None
    THEN Raise(p, segs, offset, out, The(made.err))
    ELSE Break(made.p, made.segs, next_start, out))

\* NextSegment that goes on in the BODY state
NextSegmentInBody(p, segs, offset, next_start, out) ==
  With(create_segment(p, segs), LAMBDA made :
    IF made.err # None
    THEN Raise(p, segs, offset, out, The(made.err))
    ELSE Loop(Moved(made.p, BODY, made.segs, out), made.segs, next_start, out))

\* The segment that follows a boundary line: the new segment, then the loop
\* again in the HEADER state
NextSegment(p, segs, offset, next_start, out) ==
  With(create_segment(p, segs), LAMBDA made :
    IF made.err # None
    THEN Raise(p, segs, offset, out, The(made.err))
    ELSE Loop(Moved(made.p, HEADER, made.segs, out), made.segs, next_start, out))

\* if self._state is _PREAMBLE
PreambleStep(p, segs, offset, out) ==
  With(p.buffer, LAMBDA buffer :
  With(Len(p.delimiter), LAMBDA d_len :
  With(Find(buffer, From(p.delimiter, 2), offset), LAMBDA index :
    IF index > -1
    THEN IF index > 0 /\ ~(index >= 2 /\ Slice(buffer, index - 2, index) = CRLF)
         THEN Raise(p, segs, offset, out,
                    ParserError("Unexpected byte in front of first boundary"))
         ELSE
         With(index + d_len, LAMBDA next_start :
         With(Slice(buffer, next_start - 2, next_start), LAMBDA tail :
           IF tail = CRLF
           THEN NextSegment(p, segs, offset, next_start, out)
           ELSE IF tail = DASHDASH
           THEN Break(Moved(p, COMPLETE, segs, out), segs, next_start, out)
           ELSE IF Slice(tail, 0, 1) = <<LF>>
           THEN Raise(p, segs, offset, out,
                      ParserError("Invalid line break after first boundary"))
           ELSE IF Len(tail) = 2
           THEN Raise(p, segs, offset, out,
                      ParserError("Unexpected byte after first boundary"))
           ELSE Break(p, segs, Len(buffer) - (d_len + 2), out)))
    ELSE IF p.strict /\ Len(buffer) >= d_len
    THEN Raise(p, segs, offset, out,
               StrictParserError("Boundary not found in first chunk"))
    ELSE Break(p, segs, Len(buffer) - (d_len + 2), out))))

\* HeaderEnd that yields the segment whether or not _close_headers raised
HeaderEndEager(p, segs, offset, out, closing) ==
  With([segs EXCEPT ![The(p.current)] = closing.seg], LAMBDA segs2 :
    IF closing.err # None
    THEN Raise(p, segs2, offset, Append(out, SegmentEvent(The(p.current))),
               The(closing.err))
    ELSE Loop([p EXCEPT !.state = BODY], segs2, offset + 2,
              Append(out, SegmentEvent(The(p.current)))))

\* The empty header line: after _close_headers (with result closing) the
\* segment is yielded and its body begins
HeaderEnd(p, segs, offset, out, closing) ==
  With([segs EXCEPT ![The(p.current)] = closing.seg], LAMBDA segs2 :
    IF closing.err # None
    THEN Raise(p, segs2, offset, out, The(closing.err))
    ELSE Loop(Moved(Yielding(p, segs2), BODY, segs2,
                    Append(out, SegmentEvent(The(p.current)))),
              segs2, offset + 2, Append(out, SegmentEvent(The(p.current)))))

\* elif self._state is _HEADER
HeaderStep(p, segs, offset, out) ==
  With(p.buffer, LAMBDA buffer :
  With(The(p.current), LAMBDA cur :
  With(Find(buffer, CRLF, offset), LAMBDA nl :
    IF nl > offset
    THEN With(add_headerline(segs[cur], p, Slice(buffer, offset, nl)), LAMBDA added :
           IF added.err # None
           THEN Raise(p, [segs EXCEPT ![cur] = added.seg], offset, out, The(added.err))
           ELSE Loop(p, [segs EXCEPT ![cur] = added.seg], nl + 2, out))
    ELSE IF nl = offset
    THEN HeaderEnd(p, segs, offset, out, close_headers(segs[cur], p))
    ELSE IF Find(buffer, <<LF>>, offset) # -1
    THEN Raise(p, segs, offset, out,
               ParserError("Invalid line break in segment header"))
    ELSE IF Len(buffer) - offset > p.max_header_size
    THEN Raise(p, segs, offset, out,
               ParserLimitReached("Maximum segment header length exceeded"))
    ELSE Break(p, segs, offset, out))))

\* BodyFlush that keeps two bytes more: chunk_end = bufferlen - (d_len + 3)
BodyFlushLate(p, segs, offset, out) ==
  With(p.buffer, LAMBDA buffer :
  With(The(p.current), LAMBDA cur :
  With(Len(buffer) - (Len(p.delimiter) + 3), LAMBDA chunk_end :
    IF ~(chunk_end > offset)
    THEN Break(p, segs, offset, out)
    ELSE
    With(update_size(segs[cur], chunk_end - offset), LAMBDA sized :
      IF sized.err # None
      THEN Raise(p, [segs EXCEPT ![cur] = sized.seg], offset, out, The(sized.err))
      ELSE Break(p, [segs EXCEPT ![cur] = sized.seg], chunk_end,
                 Append(out, DataEvent(Slice(buffer, offset, chunk_end))))))))

\* The body run flushed when no delimiter ends the segment: all but the last
\* d_len + 1 bytes
BodyFlush(p, segs, offset, out) ==
  With(p.buffer, LAMBDA buffer :
  With(The(p.current), LAMBDA cur :
  With(Len(buffer) - (Len(p.delimiter) + 1), LAMBDA chunk_end :
    IF ~(chunk_end > offset)
    THEN Raise(p, segs, offset, out, AssertionError)
    ELSE
    With(update_size(segs[cur], chunk_end - offset), LAMBDA sized :
      IF sized.err # None
      THEN Raise(p, [segs EXCEPT ![cur] = sized.seg], offset, out, The(sized.err))
      ELSE Break(Yielding(p, [segs EXCEPT ![cur] = sized.seg]),
                 [segs EXCEPT ![cur] = sized.seg], chunk_end,
                 Append(out, DataEvent(Slice(buffer, offset, chunk_end))))))))

\* BodyEnd without `yield None`: the segment ends but the consumer is not told
BodyEndSilent(p, segs, next_start, out, tail) ==
  With(The(p.current), LAMBDA cur :
  With(mark_complete(segs[cur]), LAMBDA marked :
    IF marked.err # None
    THEN Raise(p, segs, next_start, out, The(marked.err))
    ELSE IF tail = DASHDASH
    THEN Break([p EXCEPT !.state = COMPLETE], [segs EXCEPT ![cur] = marked.seg],
               next_start, out)
    ELSE NextSegment(p, [segs EXCEPT ![cur] = marked.seg], next_start, next_start, out)))

\* The end of the segment at a delimiter: _mark_complete, the end event, then
\* the next segment or the end of the stream
BodyEnd(p, segs, next_start, out, tail) ==
  With(The(p.current), LAMBDA cur :
  With(mark_complete(segs[cur]), LAMBDA marked :
    IF marked.err # None
    THEN Raise(p, segs, next_start, out, The(marked.err))
    ELSE
    With([segs EXCEPT ![cur] = marked.seg], LAMBDA segs2 :
    With(Append(out, EndEvent), LAMBDA out2 :
      IF tail = DASHDASH
      THEN Break(Moved(Yielding(p, segs2), COMPLETE, segs2, out2), segs2, next_start,
                 out2)
      ELSE NextSegment(Yielding(p, segs2), segs2, next_start, next_start, out2)))))

\* A delimiter at index followed by CRLF or "--": the rest of the body, then the
\* end of the segment
BodyDelimiter(p, segs, offset, out, index, tail) ==
  With(The(p.current), LAMBDA cur :
  With(index + Len(p.delimiter) + 2, LAMBDA next_start :
    IF index > offset
    THEN With(update_size(segs[cur], index - offset), LAMBDA sized :
           IF sized.err # None
           THEN Raise(p, [segs EXCEPT ![cur] = sized.seg], offset, out, The(sized.err))
           ELSE BodyEnd(Yielding(p, [segs EXCEPT ![cur] = sized.seg]),
                        [segs EXCEPT ![cur] = sized.seg], next_start,
                        Append(out, DataEvent(Slice(p.buffer, offset, index))), tail))
    ELSE BodyEnd(p, segs, next_start, out, tail)))

\* BodyStep that waits for one byte less: offset + d_len + 1 > bufferlen
BodyStepShort(p, segs, offset, out) ==
  With(Len(p.delimiter), LAMBDA d_len :
    IF offset + d_len + 1 > Len(p.buffer)
    THEN Break(p, segs, offset, out)
    ELSE
    With(Find(p.buffer, p.delimiter, offset), LAMBDA index :
    With(Slice(p.buffer, index + d_len, index + d_len + 2), LAMBDA tail :
      IF index > -1 /\ (tail = CRLF \/ tail = DASHDASH)
      THEN BodyDelimiter(p, segs, offset, out, index, tail)
      ELSE BodyFlush(p, segs, offset, out))))

\* elif self._state is _BODY
BodyStep(p, segs, offset, out) ==
  With(Len(p.delimiter), LAMBDA d_len :
    IF offset + d_len + 2 > Len(p.buffer)
    THEN Break(p, segs, offset, out)
    ELSE
    With(Find(p.buffer, p.delimiter, offset), LAMBDA index :
    With(Slice(p.buffer, index + d_len, index + d_len + 2), LAMBDA tail :
      IF index > -1 /\ (tail = CRLF \/ tail = DASHDASH)
      THEN BodyDelimiter(p, segs, offset, out, index, tail)
      ELSE BodyFlush(p, segs, offset, out))))

\* while True
Loop(p, segs, offset, out) ==
  IF p.state = PREAMBLE THEN PreambleStep(p, segs, offset, out)
  ELSE IF p.state = HEADER THEN HeaderStep(p, segs, offset, out)
  ELSE IF p.state = BODY THEN BodyStep(p, segs, offset, out)
  ELSE Raise(p, segs, offset, out, Error("RuntimeError", "Unexpected internal state"))

(***************************************************************************)
(* PushMultipartParser.close and parse                                     *)
(*                                                                         *)
(* A call result is [p, segs, out, err]: the parser and the heap after the *)
(* call, the events the call yielded and the exception it raised.          *)
(***************************************************************************)
\* A latch that keeps the last error
LatchLast(p, err) == [p EXCEPT !.error = Some(err)]

\* if not self.error: self.error = err
Latch(p, err) == IF p.error = None THEN [p EXCEPT !.error = Some(err)] ELSE p

\* Closed that keeps the buffer
ClosedWithBuffer(p) == [p EXCEPT !.closed = TRUE, !.current = None]

\* Closed that keeps the current segment
ClosedWithCurrent(p) == [p EXCEPT !.closed = TRUE, !.buffer = <<>>]

\* self.closed = True; self._current = None; del self._buffer[:]
Closed(p) == [p EXCEPT !.closed = TRUE, !.current = None, !.buffer = <<>>]

\* close that never checks for completeness
closeUnchecked(p, segs, check_complete) ==
  [p |-> Closed(p), segs |-> segs, out |-> <<>>, err |-> None]

\* PushMultipartParser.close(check_complete)
STR_closed == "Unexpected end of multipart stream (parser closed)"

close(p, segs, check_complete) ==
  IF check_complete /\ p.state # COMPLETE
  THEN [p |-> Latch(Closed(p), ParserError(STR_closed)), segs |-> segs, out |-> <<>>,
        err |-> Some(ParserError(STR_closed))]
  ELSE [p |-> Closed(p), segs |-> segs, out |-> <<>>, err |-> None]

\* except Exception as err: latch the first error, close, raise
Except(p, segs, out, err) ==
  [p |-> Closed(Latch(p, err)), segs |-> segs, out |-> out, err |-> Some(err)]

\* The code after the loop: drop the parsed bytes from the buffer
Consume(p, offset) ==
  IF offset > 0
  THEN [p EXCEPT !.parsed = @ + offset, !.buffer = From(@, offset)]
  ELSE p

\* The end of parse: the exception handler if the loop raised, else the
\* parsed bytes dropped from the buffer
Finish(run) ==
  IF run.err # None
  THEN Except(run.p, run.segs, run.out, The(run.err))
  ELSE [p |-> Consume(run.p, run.offset), segs |-> run.segs, out |-> run.out,
        err |-> None]

\* if not chunk: self.close()
ParseEOF(ended) ==
  IF ended.err # None THEN Except(ended.p, ended.segs, <<>>, The(ended.err)) ELSE ended

\* The content length check with <= for <
ContentLengthReached(p, chunk) ==
  /\ p.content_length > -1
  /\ p.content_length <= p.parsed + Len(p.buffer) + Len(chunk)

\* if self.content_length > -1: available = ...; if self.content_length < available
ContentLengthExceeded(p, chunk) ==
  /\ p.content_length > -1
  /\ p.content_length < p.parsed + Len(p.buffer) + Len(chunk)

\* DataAfterEnd that buffers and counts the chunk instead of dropping it
DataAfterEndBuffered(p, segs, chunk) ==
  IF p.strict
  THEN Except(p, segs, <<>>,
              StrictParserError("Unexpected data after end of multipart stream"))
  ELSE [p |-> Consume([p EXCEPT !.buffer = @ \o chunk], Len(chunk)), segs |-> segs,
        out |-> <<>>, err |-> None]

\* DataAfterEnd that starts over with the preamble of another stream
DataAfterEndRestart(p, segs, chunk) ==
  IF p.strict
  THEN Except(p, segs, <<>>,
              StrictParserError("Unexpected data after end of multipart stream"))
  ELSE [p |-> [p EXCEPT !.state = PREAMBLE], segs |-> segs, out |-> <<>>, err |-> None]

\* DataAfterEnd that raises unless the parser is strict
DataAfterEndInverted(p, segs, chunk) ==
  IF ~p.strict
  THEN Except(p, segs, <<>>,
              StrictParserError("Unexpected data after end of multipart stream"))
  ELSE [p |-> p, segs |-> segs, out |-> <<>>, err |-> None]

\* if self._state is _COMPLETE: raise in strict mode, else return
DataAfterEnd(p, segs, chunk) ==
  IF p.strict
  THEN Except(p, segs, <<>>,
              StrictParserError("Unexpected data after end of multipart stream"))
  ELSE [p |-> p, segs |-> segs, out |-> <<>>, err |-> None]

\* parse with the content length checked before the closed flag
parseLengthFirst(p, segs, chunk) ==
  IF chunk = <<>>
  THEN ParseEOF(close(p, segs, TRUE))
  ELSE IF ContentLengthExceeded(p, chunk)
  THEN Except(p, segs, <<>>, ParserError("Content-Length limit exceeded"))
  ELSE IF p.closed
  THEN Except(p, segs, <<>>, ParserStateError("Parser closed"))
  ELSE IF p.state = COMPLETE
  THEN DataAfterEnd(p, segs, chunk)
  ELSE Finish(Loop([p EXCEPT !.buffer = @ \o chunk], segs, 0, <<>>))

\* PushMultipartParser.parse(chunk), its iterator drained
parse(p, segs, chunk) ==
  IF chunk = <<>>
  THEN ParseEOF(close(p, segs, TRUE))
  ELSE IF p.closed
  THEN Except(p, segs, <<>>, ParserStateError("Parser closed"))
  ELSE IF ContentLengthExceeded(p, chunk)
  THEN Except(p, segs, <<>>, ParserError("Content-Length limit exceeded"))
  ELSE IF p.state = COMPLETE
  THEN DataAfterEnd(p, segs, chunk)
  ELSE Finish(Loop([p EXCEPT !.buffer = @ \o chunk, !.yielded = <<>>, !.moved = <<>>],
                   segs, 0, <<>>))

(***************************************************************************)
(* The system: one parser fed one byte stream in chunks                    *)
(*                                                                         *)
(* The caller holds a stream `input` and has pushed its first `pos` bytes. *)
(* It pushes the next bytes in a chunk of any size, signals the end of the *)
(* input with an empty chunk, or closes the parser, in any order.          *)
(***************************************************************************)
VARIABLES
  input,      \* the byte stream the caller reads from
  bodies,     \* the segment bodies the stream was built from, in order
  pos,        \* the number of bytes of input pushed so far
  parser,     \* the PushMultipartParser object
  segments,   \* the MultipartSegment objects created so far (the heap)
  op,         \* the last call: "init", "parse", "eof", "close" or "abort"
  chunk,      \* the chunk of the last parse call
  emitted,    \* the events the last call yielded
  raised,     \* the exception the last call raised, or None
  stream,     \* every event yielded so far, adjacent body chunks joined
  firstError, \* the first exception any call raised, or None
  ended,      \* whether the caller has signalled the end of input or closed
  loose,      \* a second parser with limits at least as large, given the same
              \* calls, and what its consumer has seen; None when there is none
  form,       \* a call of parse_form_data, its arguments and its outcome; None
              \* when the caller drives a push parser
  iteration   \* a MultipartParser object and the iterators made of it; None
              \* when there is none

vars == <<input, bodies, pos, parser, segments, op, chunk, emitted, raised,
          stream, firstError, ended, loose, form, iteration>>

(***************************************************************************)
(* The streams                                                             *)
(***************************************************************************)
\* The boundary the parser is constructed with
Boundary == <<"b">>
Delimiter == CRLF \o DASHDASH \o Boundary

\* Content-Disposition:form-data;name=a
HeaderLine ==
  STR_Content_Disposition \o <<":">> \o STR_form_data \o <<";">> \o STR_name \o <<"=", "a">>

\* A segment on the wire, after the CRLF of its opening boundary: the header
\* lines, the blank line, the body and the closing delimiter
Part(lines, body) ==
  LET RECURSIVE Lines(_)
      Lines(ls) == IF ls = <<>> THEN <<>> ELSE Head(ls) \o CRLF \o Lines(Tail(ls))
  IN Lines(lines) \o CRLF \o body \o Delimiter

\* preamble --b (CRLF part)* -- epilogue
RECURSIVE Parts(_)
Parts(ps) == IF ps = <<>> THEN <<>> ELSE CRLF \o Head(ps) \o Parts(Tail(ps))

Stream(preamble, ps, epilogue) ==
  preamble \o DASHDASH \o Boundary \o Parts(ps) \o DASHDASH \o epilogue

\* The largest number of pieces a body is made of
MaxPieces == 2
\* The largest chunk the caller pushes, short of pushing all that is left
MaxChunk == 2

\* The pieces bodies are made of: plain bytes, the prefixes of a delimiter, and a
\* whole delimiter (which a body may hold when no CRLF or "--" follows it)
Pieces == {<<"x">>, <<"x", "x", "x">>, <<CR>>, CRLF, DASHDASH, Delimiter}

RECURSIVE Concats(_)
Concats(n) ==
  IF n = 0 THEN {<<>>}
  ELSE LET shorter == Concats(n - 1)
       IN shorter \cup {b \o q : b \in shorter, q \in Pieces}

\* The index of the first delimiter of s that CRLF or "--" follows, or -1
FirstDelimiter(s) ==
  LET d_len == Len(Delimiter)
      hits == {i \in 0..(Len(s) - d_len - 2) :
                 /\ Slice(s, i, i + d_len) = Delimiter
                 /\ Slice(s, i + d_len, i + d_len + 2) \in {CRLF, DASHDASH}}
  IN IF hits = {} THEN -1 ELSE Min(hits)

\* A body is legal when the delimiter that follows it is the first one
LegalBody(b) ==
  /\ FirstDelimiter(b \o Delimiter \o DASHDASH) = Len(b)
  /\ FirstDelimiter(b \o Delimiter \o CRLF) = Len(b)

\* A delimiter in a legal body: neither CRLF nor "--" follows it
HasFalseBoundary(b) == Find(b, Delimiter, 0) # -1

Bodies == {b \in Concats(MaxPieces) : LegalBody(b)}
FalseBodies == {b \in Bodies : HasFalseBoundary(b)}

\* A scenario: a stream, the bodies it was built from, whether it is a legal
\* multipart stream, and the parser's strict and content_length arguments
Scenario(in, bs, legal) ==
  [input |-> in, bodies |-> bs, legal |-> legal, strict |-> FALSE, content_length |-> -1]

OnePart(b) == Stream(<<>>, <<Part(<<HeaderLine>>, b)>>, <<>>)
TwoParts(b1, b2) ==
  Stream(<<>>, <<Part(<<HeaderLine>>, b1), Part(<<HeaderLine>>, b2)>>, <<>>)

\* One segment, with every body
OnePartScenarios == {Scenario(OnePart(b), <<b>>, TRUE) : b \in Bodies}

\* Two segments, the first with an empty body, a plain one or a false boundary
TwoPartScenarios ==
  {Scenario(TwoParts(b, <<"x">>), <<b, <<"x">>>>, TRUE) :
     b \in FalseBodies \cup {<<>>, <<"x">>}}

\* A preamble (after its CRLF, or right in front of the boundary) and an epilogue
\* around no segment or one
FramedScenarios ==
  {Scenario(Stream(<<"p">> \o CRLF, <<>>, <<"e">>), <<>>, TRUE),
   Scenario(Stream(CRLF, <<Part(<<HeaderLine>>, <<"x">>)>>, CRLF), <<<<"x">>>>, TRUE),
   Scenario(Stream(<<"p">>, <<Part(<<HeaderLine>>, <<"x">>)>>, <<>>), <<<<"x">>>>, FALSE)}

\* Broken streams: a second segment whose header line has no colon, a segment
\* without Content-Disposition, a bare LF after the first boundary
BrokenScenarios ==
  {Scenario(Stream(<<>>, <<Part(<<HeaderLine>>, <<"x">>), Part(<< <<"y">> >>, <<>>)>>, <<>>),
            <<<<"x">>, <<>>>>, FALSE),
   Scenario(Stream(<<>>, <<Part(<< <<"y", ":", "z">> >>, <<"x">>)>>, <<>>), <<<<"x">>>>, FALSE),
   Scenario(DASHDASH \o Boundary \o <<LF>> \o HeaderLine, <<>>, FALSE)}

\* The streams parsed in strict mode or with a content length
CoreScenarios ==
  FramedScenarios \cup
  {Scenario(OnePart(<<"x">>), <<<<"x">>>>, TRUE),
   Scenario(TwoParts(<<>>, <<"x">>), <<<<>>, <<"x">>>>, TRUE)}

\* In strict mode a preamble is not legal; a stream longer than the content
\* length is not legal
Scenarios ==
  OnePartScenarios \cup TwoPartScenarios \cup FramedScenarios \cup BrokenScenarios
  \cup {[sc EXCEPT !.strict = TRUE,
                   !.legal = @ /\ Find(sc.input, DASHDASH \o Boundary, 0) = 0] :
          sc \in CoreScenarios}
  \cup {[sc EXCEPT !.content_length = Len(sc.input) - k, !.legal = @ /\ k = 0] :
          sc \in CoreScenarios, k \in {0, 1}}

\* max_header_size = 4096 + 128 and max_header_count = 8, the defaults
DefaultMaxHeaderSize == 4096 + 128
DefaultMaxHeaderCount == 8

\* The scenario the run was started with
Legal ==
  \E sc \in Scenarios :
    /\ sc.legal
    /\ sc.input = input
    /\ sc.bodies = bodies
    /\ sc.strict = parser.strict
    /\ sc.content_length = parser.content_length

(***************************************************************************)
(* The calls                                                               *)
(***************************************************************************)
\* The events of a call appended to the stream, adjacent body chunks joined
RECURSIVE Joined(_, _)
Joined(st, out) ==
  IF out = <<>> THEN st
  ELSE IF Head(out).kind = "data" /\ st # <<>> /\ st[Len(st)].kind = "data"
  THEN Joined([st EXCEPT ![Len(st)].data = @ \o Head(out).data], Tail(out))
  ELSE Joined(Append(st, Head(out)), Tail(out))

\* The caller's record of a call with result r, made with the next n bytes of
\* the input; a chunk that is refused (the call raises) is not taken from it
Called(r, name, c, n) ==
  /\ pos' = (IF r.err = None THEN pos + n ELSE pos)
  /\ parser' = r.p
  /\ segments' = r.segs
  /\ op' = name
  /\ chunk' = c
  /\ emitted' = r.out
  /\ raised' = r.err
  /\ stream' = Joined(stream, r.out)
  /\ firstError' = IF firstError = None THEN r.err ELSE firstError
  /\ UNCHANGED <<input, bodies>>

Init ==
  \E sc \in Scenarios :
    /\ input = sc.input
    /\ bodies = sc.bodies
    /\ pos = 0
    /\ parser = NewParser(Boundary, sc.content_length, DefaultMaxHeaderSize,
                          DefaultMaxHeaderCount, inf, inf, sc.strict)
    /\ segments = <<>>
    /\ op = "init"
    /\ chunk = <<>>
    /\ emitted = <<>>
    /\ raised = None
    /\ stream = <<>>
    /\ firstError = None
    /\ ended = FALSE
    /\ loose = None
    /\ form = None
    /\ iteration = None

\* parser.parse(chunk) with the chunk c of n bytes
PushChunk(c, n) ==
  /\ Called(parse(parser, segments, c), "parse", c, n)
  /\ UNCHANGED <<ended, loose, form, iteration>>

\* parser.parse(chunk) with the next n bytes of the input
PushBytes(n) == PushChunk(Slice(input, pos, pos + n), n)

\* A chunk of up to MaxChunk bytes
Push ==
  \E n \in 1..MaxChunk :
    /\ pos + n <= Len(input)
    /\ PushBytes(n)

\* All that is left of the input in one chunk
PushRest ==
  /\ pos < Len(input)
  /\ PushBytes(Len(input) - pos)

\* parser.parse(b""): the end of the input
PushEOF ==
  /\ Called(parse(parser, segments, <<>>), "eof", <<>>, 0)
  /\ ended' = TRUE
  /\ UNCHANGED <<loose, form, iteration>>

\* parser.close()
Close ==
  /\ Called(close(parser, segments, TRUE), "close", <<>>, 0)
  /\ ended' = TRUE
  /\ UNCHANGED <<loose, form, iteration>>

\* parser.close(check_complete=False)
Abort ==
  /\ Called(close(parser, segments, FALSE), "abort", <<>>, 0)
  /\ ended' = TRUE
  /\ UNCHANGED <<loose, form, iteration>>

Next == Push \/ PushRest \/ PushEOF \/ Close \/ Abort

Spec == Init /\ [][Next]_vars

(***************************************************************************)
(* What the consumer has seen                                              *)
(***************************************************************************)
\* The place in the stream of the event that announced segment k, or 0
Announced(k) ==
  IF \E i \in 1..Len(stream) : stream[i].kind = "segment" /\ stream[i].seg = k
  THEN CHOOSE i \in 1..Len(stream) : stream[i].kind = "segment" /\ stream[i].seg = k
  ELSE 0

\* The body chunks emitted for segment k, concatenated
EmittedBody(k) ==
  IF Announced(k) < Len(stream) /\ stream[Announced(k) + 1].kind = "data"
  THEN stream[Announced(k) + 1].data
  ELSE <<>>

\* Whether the end of segment k was emitted: its body is the data in between
SegmentEnded(k) ==
  \/ /\ Announced(k) + 1 <= Len(stream)
     /\ stream[Announced(k) + 1].kind = "end"
  \/ /\ Announced(k) + 2 <= Len(stream)
     /\ stream[Announced(k) + 1].kind = "data"
     /\ stream[Announced(k) + 2].kind = "end"

IsPrefix(a, b) == Len(a) <= Len(b) /\ a = SubSeq(b, 1, Len(a))

\* The caller has pushed the whole input and has not yet signalled its end
AllPushed == pos = Len(input) /\ ~ended

\* What a run shows of a stream: the events with each segment's header list
\* in place of the segment, the final state and the first error
Summary(st, segs, state, err) ==
  [events |-> [i \in 1..Len(st) |->
                 IF st[i].kind = "segment"
                 THEN [st[i] EXCEPT !.data = segs[st[i].seg].headerlist]
                 ELSE st[i]],
   state |-> state,
   error |-> err]

\* The summary of a run that pushes the whole input as a single chunk
SummaryOf(run) == Summary(Joined(<<>>, run.out), run.segs, run.p.state, run.err)

OneShot ==
  SummaryOf(parse(NewParser(Boundary, parser.content_length, DefaultMaxHeaderSize,
                            DefaultMaxHeaderCount, inf, inf, parser.strict),
                  <<>>, input))

(***************************************************************************)
(* Bodies                                                                  *)
(***************************************************************************)
\* C1: for every segment of a legal input, under any chunking, the body
\* chunks emitted between the segment's announcement and its end concatenate
\* to the segment's original body: while the segment is open they are a
\* prefix of it, once it has ended they are all of it.
RoundTrip ==
  Legal =>
    \A k \in 1..Len(segments) :
      Announced(k) # 0 =>
        /\ k <= Len(bodies)
        /\ IsPrefix(EmittedBody(k), bodies[k])
        /\ SegmentEnded(k) => EmittedBody(k) = bodies[k]

\* C2: for a legal input, whatever the chunks it was pushed in, once all of
\* it is pushed the consumer has seen what pushing it as a single chunk shows:
\* the same segments with the same headers, the same body per segment, the
\* same segment ends and the same final state.
ChunkIndependence ==
  (Legal /\ AllPushed) =>
    Summary(stream, segments, parser.state, firstError) = OneShot

\* C3: a delimiter in a body that neither CRLF nor "--" follows is body data:
\* once a legal input is pushed, in whatever chunks, every segment whose body
\* holds such a false boundary has been emitted with that body in full and
\* ended at the genuine delimiter after it.
FalseBoundaryIsData ==
  (Legal /\ AllPushed) =>
    \A k \in 1..Len(bodies) :
      HasFalseBoundary(bodies[k]) =>
        /\ Announced(k) # 0
        /\ SegmentEnded(k)
        /\ EmittedBody(k) = bodies[k]

(***************************************************************************)
(* Events                                                                  *)
(***************************************************************************)
\* The number of segments announced in the first i events of the stream
AnnouncedBefore(i) ==
  Cardinality({j \in 1..i : stream[j].kind = "segment"})

\* C4: across all the calls of one parser the events are a prefix of
\* (segment, body chunks, end)*: a segment is announced first or right after
\* the end of the one before, body chunks and the end follow the announcement
\* of their segment, and the segments announced are the 1st, 2nd, ... created,
\* each once.
EventOrder ==
  \A i \in 1..Len(stream) :
    /\ stream[i].kind = "segment" =>
         /\ i = 1 \/ stream[i - 1].kind = "end"
         /\ stream[i].seg = AnnouncedBefore(i)
    /\ stream[i].kind = "data" =>
         i > 1 /\ stream[i - 1].kind \in {"segment", "data"}
    /\ stream[i].kind = "end" =>
         i > 1 /\ stream[i - 1].kind \in {"segment", "data"}

\* Two segments announced and ended, the first without body data
TwoSegmentsEnded ==
  /\ Len(stream) = 5
  /\ [i \in 1..5 |-> stream[i].kind] = <<"segment", "end", "segment", "data", "end">>

\* C6: every body chunk a call emits holds at least one byte, and the
\* assertion chunk_end > offset of the body flush never fails.
BodyChunksNonEmpty ==
  /\ \A i \in 1..Len(emitted) : emitted[i].kind = "data" => Len(emitted[i].data) >= 1
  /\ raised # Some(AssertionError)

\* A call that flushed a body run and waits in BODY for more data
BodyRunFlushed ==
  /\ op = "parse"
  /\ parser.state = BODY
  /\ emitted # <<>>
  /\ emitted[Len(emitted)].kind = "data"

\* C7: when a parse call returns in state BODY, the buffer kept for the next
\* call holds at most len(delimiter) + 2 bytes.
BodyBufferBounded ==
  (op = "parse" /\ raised = None /\ parser.state = BODY) =>
    Len(parser.buffer) <= Len(parser.delimiter) + 2

\* A chunk much larger than the delimiter was pushed and the parser waits in
\* BODY with a partial delimiter's worth of bytes
LargeChunkInBody ==
  /\ op = "parse"
  /\ raised = None
  /\ parser.state = BODY
  /\ Len(chunk) > 2 * (Len(parser.delimiter) + 2)
  /\ Len(parser.buffer) = Len(parser.delimiter) + 1

(***************************************************************************)
(* Errors                                                                  *)
(***************************************************************************)
\* C5: after an end-of-input push or close() the parser is closed, and the
\* call raised "Unexpected end of multipart stream" exactly when the state
\* is not COMPLETE; it raised nothing when the state is COMPLETE.
Completeness ==
  op \in {"eof", "close"} =>
    /\ parser.closed
    /\ parser.buffer = <<>>
    /\ parser.current = None
    /\ parser.state # COMPLETE => raised = Some(ParserError(STR_closed))
    /\ parser.state = COMPLETE => raised = None

\* The end of the input signalled before the terminator was seen
EndBeforeTerminator ==
  /\ op = "eof"
  /\ parser.state = BODY
  /\ raised = Some(ParserError(STR_closed))
  /\ firstError = raised

\* C8: with a content length, a parse call with a non-empty chunk on an open
\* parser raises "Content-Length limit exceeded" exactly when parsed +
\* len(buffer) + len(chunk) exceeds it, and then emits nothing and buffers
\* nothing; a stream as long as the content length never raises it.
ContentLengthChecked ==
  [][(op' = "parse" /\ chunk' # <<>> /\ ~parser.closed /\ parser.content_length >= 0) =>
       /\ (raised' = Some(ParserError("Content-Length limit exceeded")))
            <=> (parser.parsed + Len(parser.buffer) + Len(chunk')
                   > parser.content_length)
       /\ raised' = Some(ParserError("Content-Length limit exceeded")) =>
            /\ emitted' = <<>>
            /\ parser'.buffer = <<>>
            /\ parser'.parsed = parser.parsed
            /\ parser.content_length # Len(input)]_vars

\* The last chunk of a stream one byte longer than the content length
ContentLengthExceededSeen ==
  /\ op = "parse"
  /\ raised = Some(ParserError("Content-Length limit exceeded"))
  /\ stream # <<>>
  /\ pos + Len(chunk) = Len(input)

\* C9: once a call has raised, the parser is closed and its error attribute
\* holds the first error it ever raised, whatever is raised later.
ErrorLatched ==
  firstError # None => parser.closed /\ parser.error = firstError

\* A later call raised another error than the first
SecondError ==
  /\ raised # None
  /\ firstError # None
  /\ raised # firstError

\* C10 as stated: a parse call that raises hands no event to the consumer.
NoEventsWithError ==
  (op \in {"parse", "eof"} /\ raised # None) => emitted = <<>>

\* The errors parse raises before its loop, and the one of close
EarlyErrors ==
  {ParserStateError("Parser closed"),
   ParserError("Content-Length limit exceeded"),
   StrictParserError("Unexpected data after end of multipart stream"),
   ParserError(STR_closed)}

\* C10, amended: a call that raises before the main loop (closed parser,
\* content length, data after the end in strict mode, end of input) hands
\* over no event.  A call that fails inside the loop hands over the events
\* completed before the failing step and none for the step itself: every
\* segment it announces has its headers closed without error, and every
\* segment end announced so far is that of a segment marked complete.
NoPartialEventsWithError ==
  (op \in {"parse", "eof", "close"} /\ raised # None) =>
    /\ The(raised) \in EarlyErrors => emitted = <<>>
    /\ \A i \in 1..Len(emitted) :
         emitted[i].kind = "segment" => segments[emitted[i].seg].name # None
    /\ Cardinality({i \in 1..Len(stream) : stream[i].kind = "end"})
         = Cardinality({k \in 1..Len(segments) : segments[k].complete})

\* A call that announced a segment, emitted its body and end, and then raised
EventsThenError ==
  /\ op = "parse"
  /\ raised = Some(ParserError("Malformed segment header"))
  /\ Len(emitted) = 3
  /\ emitted[1].kind = "segment"
  /\ emitted[3].kind = "end"

(***************************************************************************)
(* Calls out of turn                                                       *)
(***************************************************************************)
\* C11: once the parser is closed (by an end-of-input push, by close() or by
\* an error), a parse call with a non-empty chunk raises "Parser closed",
\* emits nothing and leaves the buffer empty and the state unchanged.
UseAfterClose ==
  [][(parser.closed /\ op' = "parse" /\ chunk' # <<>>) =>
       /\ raised' = Some(ParserStateError("Parser closed"))
       /\ emitted' = <<>>
       /\ parser'.buffer = <<>>
       /\ parser'.state = parser.state
       /\ parser'.closed]_vars

\* A chunk pushed after close() had closed the parser without an error, the
\* content length being exceeded as well
PushedAfterClose ==
  /\ op = "parse"
  /\ raised = Some(ParserStateError("Parser closed"))
  /\ firstError = raised
  /\ ContentLengthExceeded(parser, chunk)

\* C12: on an open parser in state COMPLETE, the content length allowing it,
\* a non-empty chunk raises "Unexpected data after end of multipart stream"
\* in strict mode; otherwise the call does nothing: no error, no event, and
\* state, buffer and parsed count as before.
DataAfterTerminator ==
  [][(/\ ~parser.closed
      /\ parser.state = COMPLETE
      /\ op' = "parse"
      /\ chunk' # <<>>
      /\ ~ContentLengthExceeded(parser, chunk')) =>
       /\ emitted' = <<>>
       /\ parser.strict =>
            raised' = Some(StrictParserError(
                             "Unexpected data after end of multipart stream"))
       /\ ~parser.strict =>
            /\ raised' = None
            /\ parser' = parser
            /\ segments' = segments]_vars

\* The epilogue pushed on its own after the terminator, tolerated
EpiloguePushed ==
  /\ op = "parse"
  /\ chunk = <<"e">>
  /\ ~parser.strict
  /\ parser.state = COMPLETE
  /\ ~parser.closed
  /\ raised = None

\* A stream with a byte right in front of its first boundary
JunkStream == Stream(<<"p">>, <<Part(<<HeaderLine>>, <<"x">>)>>, <<>>)

\* C13: a first boundary found behind a byte that is not a CRLF is tolerated
\* when strict is off (no push of the stream raises, and the stream pushed
\* whole is parsed to its end) and raises an error in strict mode (no segment
\* is ever announced).
JunkBeforeBoundary ==
  (input = JunkStream /\ parser.content_length = -1 /\ ~ended) =>
    IF parser.strict
    THEN stream = <<>> /\ (pos = Len(input) => firstError # None)
    ELSE firstError = None /\ (pos = Len(input) => parser.state = COMPLETE)

(***************************************************************************)
(* Streams for the limits and the segment headers                          *)
(*                                                                         *)
(* A second system: the same calls on parsers constructed with limits, on  *)
(* streams whose segments carry further header lines.                      *)
(***************************************************************************)
\* Content-Length:n, for a digit n
ContentLengthLine(n) == STR_Content_Length \o <<":">> \o <<Digits[n + 1]>>

\* Header lines X:v, Y:w and X: (an empty value)
XLine == <<"X", ":", "v">>
YLine == <<"Y", ":", "w">>
EmptyLine == <<"X", ":">>

\* Continuation lines: a space or a tab, then text, padding or nothing
Continuations == {<<SP, "y">>, <<SP>>, <<TAB, "z", SP>>}

\* Content-Disposition:attachment and Content-Disposition:form-data
AttachmentLine ==
  STR_Content_Disposition \o <<":">> \o <<"a","t","t","a","c","h","m","e","n","t">>
NamelessLine == STR_Content_Disposition \o <<":">> \o STR_form_data

\* A stream of one segment with these header lines and this body
OneSegment(lines, body) == Stream(<<>>, <<Part(lines, body)>>, <<>>)

\* A scenario with the limits the parser is constructed with
Limited(in, bs, strict, max_header_size, max_header_count, max_segment_size, max_segment_count) ==
  [input |-> in, bodies |-> bs, strict |-> strict,
   max_header_size |-> max_header_size, max_header_count |-> max_header_count,
   max_segment_size |-> max_segment_size, max_segment_count |-> max_segment_count]

\* A scenario with the default limits
Unlimited(in, bs, strict) ==
  Limited(in, bs, strict, DefaultMaxHeaderSize, DefaultMaxHeaderCount, inf, inf)

\* The body with a false boundary: a delimiter and a byte
FalseBody == Delimiter \o <<"x">>

\* The bodies around a limit of two bytes
ShortBodies == {<<"x">>, <<"x", "x">>, <<"x", "x", "x">>}

\* Segments that announce their length: two bytes for a body of one, two or
\* three, and the exact length of the body with a false boundary
ClenScenarios ==
  {Unlimited(OneSegment(<<HeaderLine, ContentLengthLine(2)>>, b), <<b>>, FALSE) :
     b \in ShortBodies}
  \cup {Unlimited(OneSegment(<<HeaderLine, ContentLengthLine(Len(FalseBody))>>, FalseBody),
                  <<FalseBody>>, FALSE)}

\* max_segment_size = 2 for a body of one, two or three bytes, and the exact
\* size of the body with a false boundary
SizeScenarios ==
  {Limited(OnePart(b), <<b>>, FALSE, DefaultMaxHeaderSize, DefaultMaxHeaderCount, 2, inf) :
     b \in ShortBodies}
  \cup {Limited(OnePart(FalseBody), <<FalseBody>>, FALSE, DefaultMaxHeaderSize,
                DefaultMaxHeaderCount, Len(FalseBody), inf)}

\* max_segment_count = 1 for no segment, one and two; = 0 for one
CountScenarios ==
  {Limited(Stream(<<>>, <<>>, <<>>), <<>>, FALSE, DefaultMaxHeaderSize,
           DefaultMaxHeaderCount, inf, 1),
   Limited(OnePart(<<"x">>), <<<<"x">>>>, FALSE, DefaultMaxHeaderSize,
           DefaultMaxHeaderCount, inf, 1),
   Limited(TwoParts(<<>>, <<"x">>), <<<<>>, <<"x">>>>, FALSE, DefaultMaxHeaderSize,
           DefaultMaxHeaderCount, inf, 1),
   Limited(OnePart(<<"x">>), <<<<"x">>>>, FALSE, DefaultMaxHeaderSize,
           DefaultMaxHeaderCount, inf, 0)}

\* max_header_count = 2 for two header lines, three, and two with a
\* continuation line
HeaderCountScenarios ==
  {Limited(OneSegment(lines, <<"x">>), <<<<"x">>>>, FALSE, DefaultMaxHeaderSize, 2, inf, inf) :
     lines \in {<<HeaderLine, XLine>>, <<HeaderLine, XLine, YLine>>,
                <<HeaderLine, XLine, <<SP, "y">>>>}}

\* max_header_size = the length of HeaderLine for that line, a line one byte
\* longer, and that line with a continuation line
HeaderSizeScenarios ==
  {Limited(OneSegment(lines, <<"x">>), <<<<"x">>>>, FALSE, Len(HeaderLine),
           DefaultMaxHeaderCount, inf, inf) :
     lines \in {<<HeaderLine>>, <<HeaderLine \o <<"b">>>>}}

\* Continuation lines after a header with a value, after one without, and as
\* the first line; in strict mode too; and one that fits max_header_size
\* alone but not merged with the header before it
ContinuationScenarios ==
  {Unlimited(OneSegment(<<HeaderLine, first, c>>, <<"x">>), <<<<"x">>>>, FALSE) :
     first \in {XLine, EmptyLine}, c \in Continuations}
  \cup {Unlimited(OneSegment(<<<<SP, "y">>, HeaderLine>>, <<"x">>), <<<<"x">>>>, FALSE),
        Unlimited(OneSegment(<<HeaderLine, XLine, <<SP, "y">>>>, <<"x">>), <<<<"x">>>>, TRUE),
        Limited(OneSegment(<<HeaderLine, <<SP, "y">>>>, <<"x">>), <<<<"x">>>>, FALSE,
                Len(HeaderLine) + 1, DefaultMaxHeaderCount, inf, inf)}

\* Segments without Content-Disposition, with another type than form-data,
\* without a name, and with two Content-Disposition headers; in strict mode too
DispositionScenarios ==
  {Unlimited(OneSegment(lines, <<"x">>), <<<<"x">>>>, strict) :
     lines \in {<<XLine>>, <<AttachmentLine>>, <<NamelessLine>>, <<HeaderLine>>,
                <<HeaderLine, AttachmentLine>>},
     strict \in BOOLEAN}

\* A header line with a bare LF in it, and a bare LF right after the first
\* boundary
BareLFLine == XLine \o <<LF>> \o YLine
BareLFInHeader == OneSegment(<<HeaderLine, BareLFLine>>, <<"x">>)
BareLFAfterBoundary == DASHDASH \o Boundary \o <<LF>> \o HeaderLine \o CRLF

LineBreakScenarios ==
  {Unlimited(BareLFInHeader, <<<<"x">>>>, FALSE),
   Unlimited(BareLFAfterBoundary, <<>>, FALSE)}

\* An epilogue longer than the delimiter and two bytes, and longer than
\* max_header_size: after no segment, and after one whose header line is as
\* long as max_header_size
LongEpilogue == <<"e", "e", "e", "e", "e", "e", "e", "e">>
EpilogueScenarios ==
  {Limited(Stream(<<>>, <<>>, LongEpilogue), <<>>, FALSE, 1, DefaultMaxHeaderCount, inf, inf),
   Limited(Stream(<<>>, <<Part(<<HeaderLine>>, <<"x">>)>>, HeaderLine \o <<"e">>),
           <<<<"x">>>>, FALSE, Len(HeaderLine), DefaultMaxHeaderCount, inf, inf)}

LimitScenarios ==
  ClenScenarios \cup SizeScenarios \cup CountScenarios \cup HeaderCountScenarios
  \cup HeaderSizeScenarios \cup ContinuationScenarios \cup DispositionScenarios
  \cup LineBreakScenarios \cup EpilogueScenarios

InitLimits ==
  \E sc \in LimitScenarios :
    /\ input = sc.input
    /\ bodies = sc.bodies
    /\ pos = 0
    /\ parser = NewParser(Boundary, -1, sc.max_header_size, sc.max_header_count,
                          sc.max_segment_size, sc.max_segment_count, sc.strict)
    /\ segments = <<>>
    /\ op = "init"
    /\ chunk = <<>>
    /\ emitted = <<>>
    /\ raised = None
    /\ stream = <<>>
    /\ firstError = None
    /\ ended = FALSE
    /\ loose = None
    /\ form = None
    /\ iteration = None

SpecLimits == InitLimits /\ [][Next]_vars

(***************************************************************************)
(* Segment limits                                                          *)
(***************************************************************************)
\* The segments announced whose headers carry a Content-Length
WithLength ==
  {k \in 1..Len(segments) : Announced(k) # 0 /\ segments[k].clen >= 0 /\ k <= Len(bodies)}

\* C14: a segment whose headers carry Content-Length N ends, without an
\* error, exactly when its body has N bytes.  A longer body raises "Segment
\* Content-Length exceeded", a shorter one "Segment size does not match
\* Content-Length header" once its closing delimiter is found, and neither
\* segment is ended.  Stated of the caller who has not yet signalled the end:
\* with N bytes no call raises and the stream pushed whole ends the segment;
\* otherwise the stream is never accepted whole, the segment is never ended
\* and the only error raised is the one named.
SegmentContentLength ==
  ~ended =>
    \A k \in WithLength :
      /\ Len(bodies[k]) = segments[k].clen =>
           /\ firstError = None
           /\ AllPushed => SegmentEnded(k)
      /\ Len(bodies[k]) > segments[k].clen =>
           /\ firstError \in {None, Some(ParserError("Segment Content-Length exceeded"))}
           /\ ~AllPushed
           /\ ~SegmentEnded(k)
      /\ Len(bodies[k]) < segments[k].clen =>
           /\ firstError \in
                {None, Some(ParserError("Segment size does not match Content-Length header"))}
           /\ ~AllPushed
           /\ ~SegmentEnded(k)

\* The segments announced, of the bodies the stream was built from
AnnouncedSegments == {k \in 1..Len(bodies) : Announced(k) # 0}

\* C15: the body bytes emitted for a segment never exceed max_segment_size;
\* a body within the limit, the limit included, is accepted (no call raises
\* and the stream pushed whole ends the segment); a longer body raises
\* "Maximum segment size exceeded" and is never accepted whole.
SegmentSizeLimit ==
  /\ \A k \in AnnouncedSegments : Len(EmittedBody(k)) <= parser.max_segment_size
  /\ (parser.max_segment_size < inf /\ ~ended) =>
       \A k \in AnnouncedSegments :
         /\ Len(bodies[k]) <= parser.max_segment_size =>
              /\ firstError = None
              /\ AllPushed => SegmentEnded(k)
         /\ Len(bodies[k]) > parser.max_segment_size =>
              /\ firstError \in
                   {None, Some(ParserLimitReached("Maximum segment size exceeded"))}
              /\ ~AllPushed

TwoHeaders == OneSegment(<<HeaderLine, XLine>>, <<"x">>)
ThreeHeaders == OneSegment(<<HeaderLine, XLine, YLine>>, <<"x">>)
TwoHeadersFolded == OneSegment(<<HeaderLine, XLine, <<SP, "y">>>>, <<"x">>)

\* C17: a header list never holds more than max_header_count entries.  With
\* a limit of two, two header lines are accepted and a third raises "Maximum
\* segment header count exceeded" with the list full; a continuation line
\* after the second replaces that header and is accepted, the list still
\* holding two.
HeaderCountLimit ==
  /\ \A k \in 1..Len(segments) :
       Len(segments[k].headerlist) <= parser.max_header_count
  /\ raised = Some(ParserLimitReached("Maximum segment header count exceeded")) =>
       Len(segments[Len(segments)].headerlist) = parser.max_header_count
  /\ (parser.max_header_count = 2 /\ ~ended) =>
       /\ input \in {TwoHeaders, TwoHeadersFolded} =>
            /\ firstError = None
            /\ Announced(1) # 0 => Len(segments[1].headerlist) = 2
            /\ AllPushed => parser.state = COMPLETE
       /\ input = ThreeHeaders =>
            /\ firstError \in
                 {None, Some(ParserLimitReached("Maximum segment header count exceeded"))}
            /\ stream = <<>>
            /\ ~AllPushed

\* A continuation line accepted with the header list full
FoldedAtLimit ==
  /\ input = TwoHeadersFolded
  /\ parser.max_header_count = 2
  /\ Announced(1) # 0
  /\ segments[1].headerlist[2] = <<<<"X">>, <<"v", SP, "y">>>>

\* One segment whose header line has exactly max_header_size bytes, and one
\* whose line is a byte longer
ExactLine == OneSegment(<<HeaderLine>>, <<"x">>)
LongLine == OneSegment(<<HeaderLine \o <<"b">>>>, <<"x">>)

\* C18: a header line of exactly max_header_size bytes, its CRLF not
\* counted, is accepted, and a line one byte longer raises "Maximum segment
\* header length exceeded", in whatever chunks the stream is pushed.
HeaderSizeLimit ==
  (parser.max_header_size = Len(HeaderLine) /\ ~ended) =>
    /\ input = ExactLine =>
         /\ firstError = None
         /\ AllPushed => parser.state = COMPLETE
    /\ input = LongLine =>
         /\ firstError \in
              {None, Some(ParserLimitReached("Maximum segment header length exceeded"))}
         /\ stream = <<>>
         /\ ~AllPushed

\* ---------------------------------------------------------------------------
\* Header continuation lines
\* ---------------------------------------------------------------------------

\* The stream of one segment with Content-Disposition, this header line and
\* this continuation line
Continued(first, c) == OneSegment(<<HeaderLine, first, c>>, <<"x">>)

\* The value a header line was written with: what follows its colon
WrittenValue(line) == From(line, Find(line, <<":">>, 0) + 1)

\* The continuation line opens the segment's headers
ContinuationFirst == OneSegment(<<<<SP, "y">>, HeaderLine>>, <<"x">>)

\* The continuation line follows the Content-Disposition header
ContinuationMerged == OneSegment(<<HeaderLine, <<SP, "y">>>>, <<"x">>)

\* The claim C19 as the specification words it: the merged header's value is
\* the old value, one space and the stripped continuation.
ContinuationAsStated ==
  \A first \in {XLine, EmptyLine}, c \in Continuations :
    (input = Continued(first, c) /\ ~parser.strict /\ Announced(1) # 0) =>
      /\ Len(segments[1].headerlist) = 2
      /\ segments[1].headerlist[2] =
           <<<<"X">>, WrittenValue(first) \o <<SP>> \o Strip(c)>>

\* C19: with strict off, a continuation line after a header is merged into
\* it: the header list keeps its length, the header keeps its name, and its
\* value becomes the old value, one space and the stripped continuation, the
\* whole stripped again like every header value (so the space is dropped
\* when the old value or the stripped continuation is empty); the stream is
\* accepted.  In strict mode, or as the first header line of a segment, the
\* continuation raises "Unexpected segment header continuation"; a merged
\* line longer than max_header_size raises "Maximum segment header length
\* exceeded".
ContinuationMerges ==
  /\ \A first \in {XLine, EmptyLine}, c \in Continuations :
       (input = Continued(first, c) /\ ~parser.strict /\ ~ended) =>
         /\ firstError = None
         /\ AllPushed => parser.state = COMPLETE
         /\ Announced(1) # 0 =>
              /\ Len(segments[1].headerlist) = 2
              /\ segments[1].headerlist[2] =
                   <<<<"X">>, Strip(WrittenValue(first) \o <<SP>> \o Strip(c))>>
  /\ (~ended /\ \/ input = ContinuationFirst
                \/ parser.strict /\ input = Continued(XLine, <<SP, "y">>)) =>
       /\ firstError \in
            {None, Some(StrictParserError("Unexpected segment header continuation"))}
       /\ stream = <<>>
       /\ ~AllPushed
  /\ (~ended /\ input = ContinuationMerged
             /\ parser.max_header_size = Len(HeaderLine) + 1) =>
       /\ firstError \in
            {None, Some(ParserLimitReached("Maximum segment header length exceeded"))}
       /\ stream = <<>>
       /\ ~AllPushed

\* A header without a value was continued: the merged value has no space
ContinuationOfEmpty ==
  /\ input = Continued(EmptyLine, <<SP, "y">>)
  /\ Announced(1) # 0
  /\ segments[1].headerlist[2] = <<<<"X">>, <<"y">>>>
  /\ AllPushed
  /\ parser.state = COMPLETE

\* ---------------------------------------------------------------------------
\* The Content-Disposition header of a segment
\* ---------------------------------------------------------------------------

\* Streams of one segment: without Content-Disposition, with the type
\* attachment, with form-data followed by attachment, and without a name
NoDisposition == OneSegment(<<XLine>>, <<"x">>)
WrongDisposition == OneSegment(<<AttachmentLine>>, <<"x">>)
SecondDispositionWrong == OneSegment(<<HeaderLine, AttachmentLine>>, <<"x">>)
Nameless == OneSegment(<<NamelessLine>>, <<"x">>)

\* The header (h, v) is a Content-Disposition of type form-data
IsFormData(header) ==
  /\ header[1] = STR_Content_Disposition
  /\ parse_options_header(header[2], "content_disposition_unquote").primary = STR_form_data

\* C20: every segment announced to the consumer has a Content-Disposition
\* header of type form-data and a name that is not null.  A segment without
\* Content-Disposition raises "Missing Content-Disposition segment header",
\* one with another type raises "... Wrong type", and one without a name
\* option is announced with the empty name when strict is off and raises a
\* StrictParserError "... Missing name option" in strict mode.
DispositionRequired ==
  /\ \A k \in 1..Len(segments) :
       Announced(k) # 0 =>
         /\ segments[k].name # None
         /\ \E i \in 1..Len(segments[k].headerlist) : IsFormData(segments[k].headerlist[i])
  /\ (~ended /\ input = NoDisposition) =>
       /\ firstError \in
            {None, Some(ParserError("Missing Content-Disposition segment header"))}
       /\ stream = <<>>
       /\ ~AllPushed
  /\ (~ended /\ input \in {WrongDisposition, SecondDispositionWrong}) =>
       /\ firstError \in
            {None, Some(ParserError(
                          "Invalid Content-Disposition segment header: Wrong type"))}
       /\ stream = <<>>
       /\ ~AllPushed
  /\ (~ended /\ input = Nameless) =>
       IF parser.strict
       THEN /\ firstError \in
                 {None, Some(StrictParserError(
                          "Invalid Content-Disposition segment header: Missing name option"))}
            /\ stream = <<>>
            /\ ~AllPushed
       ELSE /\ firstError = None
            /\ Announced(1) # 0 => segments[1].name = Some(<<>>)
            /\ AllPushed => parser.state = COMPLETE

\* A segment without a name option was announced with the empty name, and its
\* stream accepted whole
NamelessAnnounced ==
  /\ input = Nameless
  /\ ~parser.strict
  /\ Announced(1) # 0
  /\ segments[1].name = Some(<<>>)
  /\ AllPushed
  /\ parser.state = COMPLETE

(***************************************************************************)
(* Two parsers, one stream                                                 *)
(*                                                                         *)
(* The caller constructs two parsers that differ in their limits only, the *)
(* second with limits at least as large as the first, and makes every call *)
(* on both: the same chunks, the same end of input, the same close.  It    *)
(* goes on pushing whatever the calls raise.                               *)
(***************************************************************************)
\* The scenarios with a limit that the stream meets, one with two, and one
\* whose body exceeds its Content-Length and the size limit at once
TightScenarios ==
  SizeScenarios \cup CountScenarios \cup HeaderCountScenarios \cup HeaderSizeScenarios
  \cup {Limited(ContinuationMerged, <<<<"x">>>>, FALSE, Len(HeaderLine) + 1,
                DefaultMaxHeaderCount, inf, inf),
        Limited(ThreeHeaders, <<<<"x">>>>, FALSE, DefaultMaxHeaderSize, 2, 0, inf),
        Limited(OneSegment(<<HeaderLine, ContentLengthLine(2)>>, <<"x", "x", "x">>),
                <<<<"x", "x", "x">>>>, FALSE, DefaultMaxHeaderSize,
                DefaultMaxHeaderCount, 2, inf)}

\* The limits of a scenario, those of the headers raised by h and those of
\* the segments by s
Loosened(sc, h, s) ==
  [sc EXCEPT !.max_header_size = @ + h, !.max_header_count = @ + h,
             !.max_segment_size = @ + s, !.max_segment_count = @ + s]

\* The parser a scenario constructs
ParserOf(sc) ==
  NewParser(Boundary, -1, sc.max_header_size, sc.max_header_count,
            sc.max_segment_size, sc.max_segment_count, sc.strict)

InitPair ==
  \E sc \in TightScenarios, h \in {0, 1}, s \in {0, 1} :
    /\ input = sc.input
    /\ bodies = sc.bodies
    /\ pos = 0
    /\ parser = ParserOf(sc)
    /\ segments = <<>>
    /\ op = "init"
    /\ chunk = <<>>
    /\ emitted = <<>>
    /\ raised = None
    /\ stream = <<>>
    /\ firstError = None
    /\ ended = FALSE
    /\ loose = Some([parser |-> ParserOf(Loosened(sc, h, s)), segments |-> <<>>,
                     emitted |-> <<>>, stream |-> <<>>, firstError |-> None])
    /\ form = None
    /\ iteration = None

\* The caller's record of a call made on both parsers, with results r and rl,
\* with the next n bytes of the input
CalledBoth(r, rl, name, c, n) ==
  /\ pos' = pos + n
  /\ parser' = r.p
  /\ segments' = r.segs
  /\ op' = name
  /\ chunk' = c
  /\ emitted' = r.out
  /\ raised' = r.err
  /\ stream' = Joined(stream, r.out)
  /\ firstError' = IF firstError = None THEN r.err ELSE firstError
  /\ loose' = Some([parser |-> rl.p,
                    segments |-> rl.segs,
                    emitted |-> rl.out,
                    stream |-> Joined(The(loose).stream, rl.out),
                    firstError |-> IF The(loose).firstError = None
                                   THEN rl.err ELSE The(loose).firstError])
  /\ UNCHANGED <<input, bodies, form, iteration>>

\* parse(chunk) on both parsers with the next n bytes of the input
PushBytesBoth(n) ==
  /\ CalledBoth(parse(parser, segments, Slice(input, pos, pos + n)),
                parse(The(loose).parser, The(loose).segments, Slice(input, pos, pos + n)),
                "parse", Slice(input, pos, pos + n), n)
  /\ UNCHANGED ended

PushBoth ==
  \E n \in 1..MaxChunk :
    /\ pos + n <= Len(input)
    /\ PushBytesBoth(n)

PushRestBoth ==
  /\ pos < Len(input)
  /\ PushBytesBoth(Len(input) - pos)

\* parse(b"") on both parsers
PushEOFBoth ==
  /\ CalledBoth(parse(parser, segments, <<>>),
                parse(The(loose).parser, The(loose).segments, <<>>), "eof", <<>>, 0)
  /\ ended' = TRUE

\* close() on both parsers
CloseBoth ==
  /\ CalledBoth(close(parser, segments, TRUE),
                close(The(loose).parser, The(loose).segments, TRUE), "close", <<>>, 0)
  /\ ended' = TRUE

NextPair == PushBoth \/ PushRestBoth \/ PushEOFBoth \/ CloseBoth

SpecPair == InitPair /\ [][NextPair]_vars

\* C21: of two parsers that differ only in that every limit of the second is
\* at least that of the first, given the same calls: as long as the first has
\* raised no error, neither has the second, and its consumer has seen the
\* same events and the same state; and when the first error of the first is
\* not a ParserLimitReached, the second raised that same error first.
LimitMonotonicity ==
  /\ firstError = None =>
       Summary(The(loose).stream, The(loose).segments, The(loose).parser.state,
               The(loose).firstError)
         = Summary(stream, segments, parser.state, None)
  /\ (firstError # None /\ The(firstError).type # "ParserLimitReached") =>
       The(loose).firstError = firstError

\* The parser with the lower size limit has accepted the whole stream
TightAccepted ==
  /\ The(loose).parser.max_segment_size > parser.max_segment_size
  /\ parser.max_segment_size = 2
  /\ pos = Len(input)
  /\ parser.state = COMPLETE
  /\ firstError = None
  /\ stream # <<>>

(***************************************************************************)
(* Kinds of errors                                                         *)
(***************************************************************************)
\* C22: a parser constructed with strict = False never raises a
\* StrictParserError, for any input and any chunking.
StrictErrorsOnlyInStrict ==
  (~parser.strict /\ raised # None) => The(raised).type # "StrictParserError"

\* C23: a LF without a CR before it, right after the first boundary or in
\* the header section of a segment, raises a ParserError in whatever chunks
\* the stream is pushed, so that such a stream is never accepted whole; and no
\* header of any segment holds a LF.
BareLineFeedRefused ==
  /\ \A k \in 1..Len(segments) :
       \A i \in 1..Len(segments[k].headerlist) :
         /\ ~Contains(segments[k].headerlist[i][1], <<LF>>)
         /\ ~Contains(segments[k].headerlist[i][2], <<LF>>)
  /\ (~ended /\ input \in {BareLFInHeader, BareLFAfterBoundary}) =>
       /\ firstError # None => The(firstError).type = "ParserError"
       /\ stream = <<>>
       /\ ~AllPushed

(***************************************************************************)
(* MultiDict                                                               *)
(*                                                                         *)
(* The dict of lists is the sequence of its (key, values) pairs in the     *)
(* order the keys were first added.                                        *)
(***************************************************************************)
MultiDict == <<>>

\* The place of key in the dict, or 0
KeyIndex(d, key) ==
  IF \E i \in 1..Len(d) : d[i][1] = key
  THEN CHOOSE i \in 1..Len(d) : d[i][1] = key
  ELSE 0

\* MultiDict.append: self.dict.setdefault(key, []).append(value)
MultiDict_append(d, key, value) ==
  IF KeyIndex(d, key) = 0
  THEN Append(d, <<key, <<value>>>>)
  ELSE [d EXCEPT ![KeyIndex(d, key)][2] = Append(@, value)]

\* MultiDict.getall: self.dict.get(key) or []
MultiDict_getall(d, key) ==
  IF KeyIndex(d, key) = 0 THEN <<>> ELSE d[KeyIndex(d, key)][2]

\* MultiDict_getitem that returns the first value of the key
MultiDict_getitem_first(d, key) == d[KeyIndex(d, key)][2][1]

\* MultiDict.__getitem__: self.dict[key][-1], for a key of the dict
MultiDict_getitem(d, key) ==
  d[KeyIndex(d, key)][2][Len(d[KeyIndex(d, key)][2])]

\* MultiDict.iterallitems: the (key, value) pairs, key by key
RECURSIVE MultiDict_iterallitems(_)
MultiDict_iterallitems(d) ==
  IF d = <<>> THEN <<>>
  ELSE [i \in 1..Len(d[1][2]) |-> <<d[1][1], d[1][2][i]>>]
       \o MultiDict_iterallitems(Tail(d))

(***************************************************************************)
(* MultipartPart                                                           *)
(*                                                                         *)
(* file is the content written so far; buffered tells whether it is still  *)
(* the BytesIO the part was created with or a temporary file on disk.      *)
(***************************************************************************)
\* MultipartPart.__init__
MultipartPart(memfile_limit, segment) ==
  [file          |-> <<>>,
   buffered      |-> TRUE,
   size          |-> 0,
   name          |-> segment.name,
   filename      |-> segment.filename,
   headerlist    |-> segment.headerlist,
   memfile_limit |-> memfile_limit]

\* MultipartPart._write, and _write_nocheck once the part is on disk
part_write(part, data) ==
  [part EXCEPT !.size = @ + Len(data),
               !.file = @ \o data,
               !.buffered = @ /\ ~(part.size + Len(data) > part.memfile_limit)]

\* bool(part.filename): the filename is neither None nor empty
HasFilename(part) == part.filename # None /\ The(part.filename) # <<>>

(***************************************************************************)
(* MultipartParser                                                         *)
(***************************************************************************)
\* Python's min
Least(a, b) == IF a < b THEN a ELSE b

\* The keyword arguments of MultipartParser.__init__ left at their defaults
DefaultLimits ==
  [buffer_size      |-> 1024 * 64,
   header_limit     |-> 8,
   headersize_limit |-> 1024 * 4 + 128,
   part_limit       |-> 128,
   partsize_limit   |-> inf,
   spool_limit      |-> 1024 * 64,
   memory_limit     |-> 1024 * 64 * 128,
   disk_limit       |-> inf]

\* MultipartParser.__init__ with these keyword arguments
MultipartParser(source, boundary, content_length, kwargs) ==
  [stream           |-> source,
   boundary         |-> boundary,
   content_length   |-> content_length,
   buffer_size      |-> kwargs.buffer_size,
   header_limit     |-> kwargs.header_limit,
   headersize_limit |-> kwargs.headersize_limit,
   part_limit       |-> kwargs.part_limit,
   partsize_limit   |-> kwargs.partsize_limit,
   memory_limit     |-> kwargs.memory_limit,
   spool_limit      |-> Least(kwargs.spool_limit, kwargs.memory_limit),
   disk_limit       |-> kwargs.disk_limit]

\* The PushMultipartParser that _iterparse constructs: strict is not passed on
PushParserOf(mp) ==
  NewParser(mp.boundary, mp.content_length, mp.headersize_limit, mp.header_limit,
            mp.partsize_limit, mp.part_limit, FALSE)

\* What the loop of _iterparse keeps: the part in flight, the memory and the
\* disk used, the parts yielded, and the exception raised (or None)
IterState(part, mem_used, disk_used, done, err) ==
  [part |-> part, mem_used |-> mem_used, disk_used |-> disk_used, done |-> done,
   err |-> err]

\* The body of "for event in parser.parse(chunk)" for one event
OnEvent(mp, segs, st, event) ==
  IF event.kind = "segment"
  THEN [st EXCEPT !.part = Some(MultipartPart(mp.spool_limit, segs[event.seg]))]
  ELSE IF event.kind = "data" /\ event.data # <<>>
  THEN With(part_write(The(st.part), event.data), LAMBDA part :
         IF part.buffered /\ part.size + st.mem_used > mp.memory_limit
         THEN [st EXCEPT !.part = Some(part),
                         !.err = Some(ParserLimitReached("Memory limit reached"))]
         ELSE IF ~part.buffered /\ part.size + st.disk_used > mp.disk_limit
         THEN [st EXCEPT !.part = Some(part),
                         !.err = Some(ParserLimitReached("Disk limit reached"))]
         ELSE [st EXCEPT !.part = Some(part)])
  ELSE With(The(st.part), LAMBDA part :
         [st EXCEPT !.mem_used = IF part.buffered THEN @ + part.size ELSE @,
                    !.disk_used = IF part.buffered THEN @ ELSE @ + part.size,
                    !.done = Append(@, part),
                    !.part = None])

\* The events of one parse call, in order, until one raises
RECURSIVE OnEvents(_, _, _, _)
OnEvents(mp, segs, st, out) ==
  IF out = <<>> \/ st.err # None THEN st
  ELSE OnEvents(mp, segs, OnEvent(mp, segs, st, Head(out)), Tail(out))

\* The chunk _iterparse reads next: read(min(bufsize, readlimit)) or read(bufsize)
ReadChunk(mp, at, readlimit) ==
  Slice(mp.stream, at,
        at + (IF readlimit >= 0 THEN Least(mp.buffer_size, readlimit) ELSE mp.buffer_size))

\* The loop's state when _iterparse starts
IterStart == IterState(None, 0, 0, <<>>, None)

\* One turn of the loop of _iterparse, with the chunk data read from the
\* stream: the parser and the heap after parse(data), and the loop's state
\* after the events of the call; the exception of the consumer, else that of
\* the parser, ends the loop
IterTurn(mp, p, segs, st, data) ==
  With(parse(p, segs, data), LAMBDA r :
    With(OnEvents(mp, r.segs, st, r.out), LAMBDA seen :
      [p |-> r.p, segs |-> r.segs,
       st |-> IF seen.err = None THEN [seen EXCEPT !.err = r.err] ELSE seen]))

(***************************************************************************)
(* parse_form_data                                                         *)
(*                                                                         *)
(* environ is [input, content_type, content_length]: the bytes behind      *)
(* wsgi.input (or None), CONTENT_TYPE ("" when absent) and CONTENT_LENGTH  *)
(* (or None).  The charset is utf8: the requests carry no charset option.  *)
(* An outcome is [raised, forms, files]: the exception that leaves the     *)
(* function (or None) and the two MultiDicts as they are at that moment.   *)
(***************************************************************************)
UnicodeDecodeError == Error("UnicodeDecodeError", "")

\* isinstance(err, MultipartError)
IsMultipartError(err) ==
  err.type \in {"ParserError", "StrictParserError", "ParserLimitReached", "ParserStateError"}

STR_multipart_form_data ==
  <<"m","u","l","t","i","p","a","r","t","/","f","o","r","m","-","d","a","t","a">>
STR_urlencoded ==
  <<"a","p","p","l","i","c","a","t","i","o","n","/","x","-","w","w","w","-",
    "f","o","r","m","-","u","r","l","e","n","c","o","d","e","d">>
STR_url_encoded ==
  <<"a","p","p","l","i","c","a","t","i","o","n","/","x","-",
    "u","r","l","-","e","n","c","o","d","e","d">>
STR_boundary == <<"b","o","u","n","d","a","r","y">>

Outcome(err, forms, files) == [raised |-> err, forms |-> forms, files |-> files]

\* s.split(sep), for a separator of one character
RECURSIVE Split(_, _)
Split(s, sep) ==
  With(Find(s, <<sep>>, 0), LAMBDA i :
    IF i = -1 THEN <<s>>
    ELSE <<Slice(s, 0, i)>> \o Split(From(s, i + 1), sep))

\* urllib.parse.parse_qs(data, keep_blank_values=True) as the list of its
\* (name, value) pairs, for data without percent escapes: empty fields are
\* skipped, a field without "=" has the value "", "+" stands for a space
RECURSIVE parse_qs_fields(_)
parse_qs_fields(fields) ==
  IF fields = <<>> THEN <<>>
  ELSE IF Head(fields) = <<>> THEN parse_qs_fields(Tail(fields))
  ELSE With(Find(Head(fields), <<"=">>, 0), LAMBDA i :
         << <<Replace(IF i = -1 THEN Head(fields) ELSE Slice(Head(fields), 0, i),
                      <<"+">>, <<SP>>),
              Replace(IF i = -1 THEN <<>> ELSE From(Head(fields), i + 1),
                      <<"+">>, <<SP>>)>> >>
         \o parse_qs_fields(Tail(fields)))

parse_qs(data) == parse_qs_fields(Split(data, "&"))

\* for key, values in data.items(): for value in values: forms.append(key, value)
\* (a key is Some(name), as the name of a part is: the name of a part may be None)
RECURSIVE AppendAll(_, _)
AppendAll(forms, pairs) ==
  IF pairs = <<>> THEN forms
  ELSE AppendAll(MultiDict_append(forms, Some(Head(pairs)[1]), Head(pairs)[2]), Tail(pairs))

\* The body of "for part in MultipartParser(...)" for one part: a part with a
\* filename or on disk goes to files, any other has its value decoded and
\* goes to forms
RoutePart(out, part) ==
  IF HasFilename(part) \/ ~part.buffered
  THEN [out EXCEPT !.files = MultiDict_append(@, part.name, part)]
  ELSE IF ~Decodes(part.file)
  THEN [out EXCEPT !.raised = Some(UnicodeDecodeError)]
  ELSE [out EXCEPT !.forms = MultiDict_append(@, part.name, part.file)]

RECURSIVE RouteParts(_, _)
RouteParts(out, parts) ==
  IF parts = <<>> \/ out.raised # None THEN out
  ELSE RouteParts(RoutePart(out, Head(parts)), Tail(parts))

\* The url-encoded branch
UrlencodedData(data) ==
  IF ~Decodes(data)
  THEN Outcome(Some(UnicodeDecodeError), MultiDict, MultiDict)
  ELSE Outcome(None, AppendAll(MultiDict, parse_qs(data)), MultiDict)

UrlencodedBranch(source, content_length, kwargs) ==
  IF content_length > -1
  THEN IF content_length > kwargs.memory_limit
       THEN Outcome(Some(ParserLimitReached("Memory limit exceeded")), MultiDict, MultiDict)
       ELSE IF Len(Slice(source, 0, Least(kwargs.memory_limit, content_length)))
                 < content_length
       THEN Outcome(Some(ParserError("Unexpected end of data stream")), MultiDict, MultiDict)
       ELSE UrlencodedData(Slice(source, 0, Least(kwargs.memory_limit, content_length)))
  ELSE IF Len(Slice(source, 0, kwargs.memory_limit + 1)) > kwargs.memory_limit
  THEN Outcome(Some(ParserLimitReached("Memory limit exceeded")), MultiDict, MultiDict)
  ELSE UrlencodedData(Slice(source, 0, kwargs.memory_limit + 1))

\* environ.get("wsgi.input"), or the empty BytesIO that stands in for it
InputOf(environ) == IF environ.input = None THEN <<>> ELSE The(environ.input)

\* int(environ.get("CONTENT_LENGTH", -1)), for a decimal CONTENT_LENGTH
ContentLengthOf(environ) ==
  IF environ.content_length = None THEN -1 ELSE ToInt(The(environ.content_length))

\* options.get("boundary", "")
BoundaryOf(environ) ==
  The(DictGet(parse_options_header(environ.content_type, "header_unquote").options,
              STR_boundary, Some(<<>>)))

\* The request reaches the loop over MultipartParser(stream, boundary, ...)
ReachesParser(environ, strict) ==
  /\ ~(environ.input = None /\ strict)
  /\ environ.content_type # <<>>
  /\ ~(environ.content_length # None /\ ~IsDecimal(The(environ.content_length)))
  /\ parse_options_header(environ.content_type, "header_unquote").primary
       = STR_multipart_form_data
  /\ BoundaryOf(environ) # <<>>

\* The try block of parse_form_data for a request that does not reach that
\* loop
TryOther(environ, strict, kwargs) ==
  IF environ.input = None /\ strict
  THEN Outcome(Some(StrictParserError("No 'wsgi.input' in WSGI environment")),
               MultiDict, MultiDict)
  ELSE IF environ.content_type = <<>>
  THEN Outcome(IF strict THEN Some(StrictParserError("Missing Content-Type header"))
               ELSE None, MultiDict, MultiDict)
  ELSE IF environ.content_length # None /\ ~IsDecimal(The(environ.content_length))
  THEN Outcome(Some(ParserError("Invalid Content-Length header")), MultiDict, MultiDict)
  ELSE
  With(parse_options_header(environ.content_type, "header_unquote"), LAMBDA ct :
    IF ct.primary = STR_multipart_form_data
    THEN Outcome(Some(ParserError("Missing boundary for multipart/form-data")),
                 MultiDict, MultiDict)
    ELSE IF ct.primary \in {STR_urlencoded, STR_url_encoded}
    THEN UrlencodedBranch(InputOf(environ), ContentLengthOf(environ), kwargs)
    ELSE Outcome(IF strict THEN Some(StrictParserError("Unsupported Content-Type"))
                 ELSE None, MultiDict, MultiDict))

\* ignore_errors is "None", "True" or "False"
Suppresses(strict, ignore_errors) ==
  IF ignore_errors = "None" THEN ~strict ELSE ignore_errors = "True"

\* The except clause and the return: a MultipartError is raised again unless
\* errors are ignored; any other exception passes the except clause by
Leave(out, strict, ignore_errors) ==
  IF out.raised # None /\ IsMultipartError(The(out.raised))
     /\ Suppresses(strict, ignore_errors)
  THEN [out EXCEPT !.raised = None]
  ELSE out

(***************************************************************************)
(* The caller of parse_form_data                                           *)
(*                                                                         *)
(* It builds a WSGI environment around a request body and calls            *)
(* parse_form_data once, in strict mode or not, with ignore_errors None,   *)
(* True or False, with the default limits or smaller ones.                 *)
(***************************************************************************)
\* Content-Disposition:form-data;name=n and ...;name=n;filename=f
FieldLine(n) ==
  STR_Content_Disposition \o <<":">> \o STR_form_data \o <<";">> \o STR_name \o <<"=">> \o n
FileLine(n, f) == FieldLine(n) \o <<";">> \o STR_filename \o <<"=">> \o f

\* The parts of the requests: fields named a and c, a field that is no
\* UTF-8, a field of two bytes, a file, and a part with the filename ""
FieldA == Part(<<FieldLine(<<"a">>)>>, <<"x">>)
FieldA2 == Part(<<FieldLine(<<"a">>)>>, <<"y">>)
FieldC == Part(<<FieldLine(<<"c">>)>>, <<"z">>)
FieldBad == Part(<<FieldLine(<<"a">>)>>, <<XFF>>)
FieldLong == Part(<<FieldLine(<<"a">>)>>, <<"w", "w">>)
FileA == Part(<<FileLine(<<"a">>, <<"f">>)>>, <<"u">>)
FileUnnamed == Part(<<FileLine(<<"c">>, <<QUOTE, QUOTE>>)>>, <<"v">>)

\* The multipart bodies: no part, parts with names repeated across fields and
\* files, an undecodable field before and after other parts, and bodies cut
\* short or broken after a complete part
FormBodies ==
  {Stream(<<>>, <<>>, <<>>),
   Stream(<<>>, <<FieldA>>, <<>>),
   Stream(<<>>, <<FieldA, FieldC, FieldA2>>, <<>>),
   Stream(<<>>, <<FileA, FieldLong, FileUnnamed>>, <<>>),
   Stream(<<>>, <<FieldA, FileA, FieldA2>>, <<>>),
   Stream(<<>>, <<FieldBad>>, <<>>),
   Stream(<<>>, <<FieldC, FieldBad, FieldA>>, <<>>),
   Slice(Stream(<<>>, <<FieldA, FieldC>>, <<>>), 0, Len(Stream(<<>>, <<FieldA, FieldC>>, <<>>)) - 2),
   Stream(<<>>, <<FieldA, Part(<<XLine>>, <<"x">>)>>, <<>>),
   Stream(<<"p">>, <<FieldA>>, <<>>)}

\* multipart/form-data; boundary=b
FormContentType == STR_multipart_form_data \o <<";">> \o STR_boundary \o <<"=">> \o Boundary

\* Url-encoded bodies: pairs with a repeated name, a blank value, a "+", an
\* empty field, and a byte that is no UTF-8
UrlencodedBodies ==
  {<<>>,
   <<"a", "=", "x", "&", "c", "=", "z", "&", "a", "=", "y">>,
   <<"a", "&", "&", "c", "=", "+", "z">>,
   <<"a", "=", XFF>>}

Environ(in, content_type, content_length) ==
  [input |-> in, content_type |-> content_type, content_length |-> content_length]

\* CONTENT_LENGTH absent, the length of the body, one less, and no number
Lengths(body) ==
  {None, Some(<<Digits[1]>>), Some(<<"z">>)}
  \cup (IF Len(body) \in 1..9
        THEN {Some(<<Digits[Len(body) + 1]>>), Some(<<Digits[Len(body)]>>)}
        ELSE {})

\* The requests: multipart and url-encoded ones, one without a boundary, one
\* of another type, one without Content-Type and one without wsgi.input
Environs ==
  {Environ(Some(body), FormContentType, None) : body \in FormBodies}
  \cup UNION {{Environ(Some(body), STR_urlencoded, len) : len \in Lengths(body)} :
                body \in UrlencodedBodies}
  \cup {Environ(Some(Stream(<<>>, <<FieldA>>, <<>>)), STR_multipart_form_data, None),
        Environ(Some(<<"x">>), <<"t", "e", "x", "t", "/", "x">>, None),
        Environ(Some(<<"a", "=", "x">>), STR_url_encoded, None),
        Environ(Some(<<"x">>), <<>>, None),
        Environ(None, FormContentType, None)}

\* The keyword arguments: the defaults, chunks of 32 bytes read from the
\* input, parts of more than one byte spooled to disk, and a memory limit of
\* two bytes
Keywords ==
  {DefaultLimits,
   [DefaultLimits EXCEPT !.buffer_size = 32],
   [DefaultLimits EXCEPT !.spool_limit = 1],
   [DefaultLimits EXCEPT !.memory_limit = 2]}

\* A call of parse_form_data: its arguments, where it stands ("call" before
\* it is made, "read" in the loop over the parts, "done" after it), the
\* MultipartParser with its push parser, heap, stream position, read limit
\* and loop state, the two MultiDicts, and the outcome once it is done
FormCall(environ, strict, ignore_errors, kwargs) ==
  [environ |-> environ, strict |-> strict, ignore_errors |-> ignore_errors,
   kwargs |-> kwargs, pc |-> "call",
   mp |-> MultipartParser(InputOf(environ), Boundary, -1, kwargs),
   p |-> PushParserOf(MultipartParser(InputOf(environ), Boundary, -1, kwargs)),
   segs |-> <<>>, at |-> 0, readlimit |-> -1, st |-> IterStart,
   collected |-> Outcome(None, MultiDict, MultiDict), outcome |-> None]

InitForm ==
  \E environ \in Environs, strict \in BOOLEAN,
     ignore_errors \in {"None", "True", "False"}, kwargs \in Keywords :
    /\ input = InputOf(environ)
    /\ bodies = <<>>
    /\ pos = 0
    /\ parser = PushParserOf(MultipartParser(input, Boundary, -1, kwargs))
    /\ segments = <<>>
    /\ op = "init"
    /\ chunk = <<>>
    /\ emitted = <<>>
    /\ raised = None
    /\ stream = <<>>
    /\ firstError = None
    /\ ended = FALSE
    /\ loose = None
    /\ form = Some(FormCall(environ, strict, ignore_errors, kwargs))
    /\ iteration = None

\* The call has left the function with this outcome
Left(call, out) ==
  [call EXCEPT !.pc = "done", !.collected = out,
               !.outcome = Some(Leave(out, call.strict, call.ignore_errors))]

\* forms, files = parse_form_data(environ, strict=..., ignore_errors=...,
\* **kwargs), up to the loop over the parts of a multipart request, or to
\* its end for any other request
Entered(call) ==
  IF ReachesParser(call.environ, call.strict)
  THEN With(MultipartParser(InputOf(call.environ), BoundaryOf(call.environ),
                            ContentLengthOf(call.environ), call.kwargs), LAMBDA mp :
         [call EXCEPT !.pc = "read", !.mp = mp, !.p = PushParserOf(mp),
                      !.readlimit = mp.content_length])
  ELSE Left(call, TryOther(call.environ, call.strict, call.kwargs))

\* One turn of the loop of _iterparse inside the loop of parse_form_data:
\* the parts the turn yields are routed; a part that fails to decode, the
\* exception that ends the parser or the end of the parts ends the call
Turned(call, data, turn) ==
  With(RouteParts(call.collected, From(turn.st.done, Len(call.st.done))), LAMBDA out :
    With([call EXCEPT !.p = turn.p, !.segs = turn.segs, !.st = turn.st,
                      !.at = @ + Len(data),
                      !.readlimit = IF @ >= 0 THEN @ - Len(data) ELSE @,
                      !.collected = out], LAMBDA after :
      IF out.raised # None THEN Left(after, out)
      ELSE IF turn.st.err # None THEN Left(after, [out EXCEPT !.raised = turn.st.err])
      ELSE IF turn.p.closed THEN Left(after, out)
      ELSE after))

ParseFormData ==
  /\ The(form).pc = "call"
  /\ form' = Some(Entered(The(form)))
  /\ op' = "parse_form_data"
  /\ UNCHANGED <<input, bodies, pos, parser, segments, chunk, emitted, raised,
                 stream, firstError, ended, loose, iteration>>

ReadInput ==
  /\ The(form).pc = "read"
  /\ form' = Some(Turned(The(form),
                         ReadChunk(The(form).mp, The(form).at, The(form).readlimit),
                         IterTurn(The(form).mp, The(form).p, The(form).segs, The(form).st,
                                  ReadChunk(The(form).mp, The(form).at,
                                            The(form).readlimit))))
  /\ op' = "read"
  /\ UNCHANGED <<input, bodies, pos, parser, segments, chunk, emitted, raised,
                 stream, firstError, ended, loose, iteration>>

NextForm == ParseFormData \/ ReadInput

SpecForm == InitForm /\ [][NextForm]_vars

\* C24: with ignore_errors True, or None with strict False, parse_form_data
\* never raises, whatever the request; with ignore_errors False, or None with
\* strict True, it raises every parser error.
ErrorSuppression ==
  (form # None /\ The(form).pc = "done") =>
    IF Suppresses(The(form).strict, The(form).ignore_errors)
    THEN The(The(form).outcome).raised = None
    ELSE The(The(form).outcome).raised = The(form).collected.raised


(***************************************************************************)
(* Routing of the parts                                                    *)
(***************************************************************************)
\* The call reads a multipart request and no part has failed to decode
Routing ==
  /\ form # None
  /\ The(form).pc \in {"read", "done"}
  /\ ReachesParser(The(form).environ, The(form).strict)
  /\ The(form).collected.raised # Some(UnicodeDecodeError)

\* The names of the parts the parser has completed
PartNames == {The(form).st.done[i].name : i \in 1..Len(The(form).st.done)}

\* The completed parts of that name, in stream order: those with a filename
\* that is not empty or with a body on disk, and the others
NamedOrSpooled(key) ==
  SelectSeq(The(form).st.done, LAMBDA q :
    q.name = key /\ ((q.filename # None /\ The(q.filename) # <<>>) \/ ~q.buffered))
PlainFields(key) ==
  SelectSeq(The(form).st.done, LAMBDA q :
    q.name = key /\ ~((q.filename # None /\ The(q.filename) # <<>>) \/ ~q.buffered))

\* The same with "has a filename" read as "the filename option is there"
WithFilenameOption(key) ==
  SelectSeq(The(form).st.done, LAMBDA q : q.name = key /\ (q.filename # None \/ ~q.buffered))

Values(parts) == [i \in 1..Len(parts) |-> parts[i].file]

\* The keys of a MultiDict
Keys(d) == {d[i][1] : i \in 1..Len(d)}

\* dict[key] is the last of the values expected under key, for a key that
\* is expected to have values
LastOf(d, key, expected) ==
  expected # <<>> => MultiDict_getitem(d, key) = expected[Len(expected)]

NoSegmentYet == \A i \in 1..Len(stream) : stream[i].kind # "segment"

\* C26 as stated: the state is PREAMBLE if and only if there is no current
\* segment and no segment has been emitted so far.
PreambleIffNoSegment ==
  parser.state = PREAMBLE <=> (parser.current = None /\ NoSegmentYet)

\* C26: in the PREAMBLE state there is no current segment and no segment has
\* been emitted, also at every yield; and without a current segment and with
\* no segment emitted, the state is PREAMBLE, or COMPLETE after a stream
\* whose first delimiter is the last, or HEADER in a parser that was closed
\* before the headers of its first segment ended.
PreambleHasNoSegment ==
  /\ parser.state = PREAMBLE => (parser.current = None /\ NoSegmentYet)
  /\ \A i \in 1..Len(parser.yielded) : parser.yielded[i].state # PREAMBLE
  /\ (parser.current = None /\ NoSegmentYet) =>
       \/ parser.state = PREAMBLE
       \/ parser.state = COMPLETE
       \/ parser.closed /\ parser.state = HEADER

\* An open parser is COMPLETE and has seen no segment
CompleteWithoutSegment ==
  /\ parser.state = COMPLETE
  /\ ~parser.closed
  /\ parser.current = None
  /\ NoSegmentYet
  /\ pos = Len(input)


\* The current segment
Current == segments[The(parser.current)]

\* The events of the last call were yielded by the loop of parse
Yields == IF emitted # <<>> THEN 1..Len(parser.yielded) ELSE {}

\* C27 as stated: between the calls, after close and at every yield, HEADER
\* implies a current segment without a name, and BODY implies a current
\* segment with a name that is not complete.
HeaderBodyEverywhere ==
  /\ parser.state = HEADER => (parser.current # None /\ Current.name = None)
  /\ parser.state = BODY =>
       (parser.current # None /\ Current.name # None /\ ~Current.complete)
  /\ \A i \in Yields :
       /\ parser.yielded[i].state = HEADER => parser.yielded[i].segment.name = None
       /\ parser.yielded[i].state = BODY => ~parser.yielded[i].segment.complete

\* C27: between the calls of an open parser, HEADER implies a current segment
\* without a name, and BODY implies a current segment with a name that is
\* not complete.  A closed parser has no current segment, whatever its state.
\* At a yield there is a current segment with a name: the segment is yielded
\* in the HEADER state, body data in the BODY state before the segment is
\* complete, and the end of the segment in the BODY state after it.
HeaderBodyBetweenCalls ==
  /\ ~parser.closed =>
       /\ parser.state = HEADER => (parser.current # None /\ Current.name = None)
       /\ parser.state = BODY =>
            (parser.current # None /\ Current.name # None /\ ~Current.complete)
  /\ parser.closed => parser.current = None
  /\ emitted # <<>> => Len(parser.yielded) = Len(emitted)
  /\ \A i \in Yields :
       /\ parser.yielded[i].current # None
       /\ parser.yielded[i].segment.name # None
       /\ emitted[i].kind = "segment" =>
            (parser.yielded[i].state = HEADER /\ ~parser.yielded[i].segment.complete)
       /\ emitted[i].kind = "data" =>
            (parser.yielded[i].state = BODY /\ ~parser.yielded[i].segment.complete)
       /\ emitted[i].kind = "end" =>
            (parser.yielded[i].state = BODY /\ parser.yielded[i].segment.complete)

\* One call has yielded a segment and a run of its body, and has left the
\* open parser in the body of that segment
SegmentThenBody ==
  /\ ~parser.closed
  /\ parser.state = BODY
  /\ Len(emitted) = 2
  /\ emitted[1].kind = "segment"
  /\ emitted[2].kind = "data"

(***************************************************************************)
(* The end of the stream                                                   *)
(***************************************************************************)
\* C28: once the state is COMPLETE, no call of parse, with a chunk or with
\* none, and no call of close changes the state, creates a segment or emits
\* an event, in strict mode or not.
CompleteIsTerminal ==
  [][parser.state = COMPLETE =>
       /\ parser'.state = COMPLETE
       /\ Len(segments') = Len(segments)
       /\ emitted' = <<>>
       /\ stream' = stream]_vars

\* An open parser that has emitted events has been given bytes after it
\* became COMPLETE
PushedAfterComplete ==
  /\ parser.state = COMPLETE
  /\ ~parser.closed
  /\ stream # <<>>
  /\ op = "parse"
  /\ chunk # <<>>
  /\ emitted = <<>>
  /\ pos > parser.parsed + Len(parser.buffer)


(***************************************************************************)
(* The size of a segment                                                   *)
(***************************************************************************)
\* The size of the segment is within its Content-Length, if it has one, and
\* within its size limit
WithinBounds(seg) ==
  /\ seg.clen >= 0 => seg.size <= seg.clen
  /\ seg.size <= seg.size_limit

\* The first error is a size error of this message
SizeError(msg) == firstError # None /\ The(firstError).msg = msg

\* C29 as stated: the size of every segment is within its Content-Length and
\* its size limit in every state, the state a size error leaves behind
\* included.
SizeAlwaysBounded == \A k \in 1..Len(segments) : WithinBounds(segments[k])

\* C29: the size of a segment is within its Content-Length and its size
\* limit in every state and at every yield, but for the segment a size error
\* was raised for: the bytes that were refused are counted, so that its size
\* is beyond the bound the error names.
SizeBounded ==
  /\ \A k \in 1..Len(segments) :
       (k < Len(segments)
          \/ ~(SizeError("Segment Content-Length exceeded")
                 \/ SizeError("Maximum segment size exceeded")))
         => WithinBounds(segments[k])
  /\ \A i \in 1..Len(parser.yielded) : WithinBounds(parser.yielded[i].segment)
  /\ SizeError("Maximum segment size exceeded") =>
       segments[Len(segments)].size > segments[Len(segments)].size_limit
  /\ SizeError("Segment Content-Length exceeded") =>
       segments[Len(segments)].size > segments[Len(segments)].clen

\* A size error has been raised for a segment, after a run of its body had
\* been accepted
SizeErrorRaised ==
  /\ SizeError("Maximum segment size exceeded")
  /\ segments # <<>>
  /\ segments[Len(segments)].size > segments[Len(segments)].size_limit
  /\ \E i \in 1..Len(stream) : stream[i].kind = "data"


(***************************************************************************)
(* Complete segments                                                       *)
(***************************************************************************)
\* The bytes the parser has been given: the chunks accepted so far, or, once
\* a call has raised, at most the input
Given == IF firstError = None THEN Slice(input, 0, pos) ELSE input

\* The bytes given hold the body emitted for segment k between the empty
\* line that ends its headers and a delimiter followed by CRLF or "--"
ClosingDelimiterFound(k) ==
  \E tail \in {CRLF, DASHDASH} :
    Find(Given, CRLF \o CRLF \o EmittedBody(k) \o parser.delimiter \o tail, 0) > -1

\* The number of events of a kind in the stream
Count(kind) == Cardinality({i \in 1..Len(stream) : stream[i].kind = kind})

\* C30: in the COMPLETE state every segment that was emitted is complete and
\* its end was emitted exactly once; and a segment is complete only if the
\* bytes given hold its closing delimiter, followed by CRLF or "--", right
\* after its body, its end being emitted with the flag.
EmittedSegmentsComplete ==
  /\ parser.state = COMPLETE =>
       /\ \A i \in 1..Len(stream) :
            stream[i].kind = "segment" =>
              (segments[stream[i].seg].complete /\ SegmentEnded(stream[i].seg))
       /\ Count("end") = Count("segment")
  /\ \A k \in 1..Len(segments) :
       segments[k].complete =>
         (Announced(k) > 0 /\ SegmentEnded(k) /\ ClosingDelimiterFound(k))
  /\ \A k \in 1..Len(segments) :
       (Announced(k) > 0 /\ SegmentEnded(k)) => segments[k].complete

\* The stream is COMPLETE after two segments with a body
TwoSegmentsComplete ==
  /\ parser.state = COMPLETE
  /\ firstError = None
  /\ Count("segment") = 2
  /\ Count("data") = 2
  /\ segments[1].complete
  /\ segments[2].complete


(***************************************************************************)
(* The transitions of the state                                            *)
(***************************************************************************)
\* The assignment m to the state is one of the five transitions, with the
\* event that goes with it
AllowedMove(m) ==
  \/ m.from = PREAMBLE /\ m.to = HEADER /\ m.events = 0
  \/ m.from = PREAMBLE /\ m.to = COMPLETE /\ m.events = 0
  \/ m.from = HEADER /\ m.to = BODY /\ m.after = "segment"
  \/ m.from = BODY /\ m.to = HEADER /\ m.after = "end"
  \/ m.from = BODY /\ m.to = COMPLETE /\ m.after = "end"

\* The assignments of a call lead from the state before to the state after
\* it, each move to HEADER with one more segment than there was
Chained(before, count, moves, after) ==
  /\ moves # <<>>
  /\ moves[1].from = before
  /\ moves[Len(moves)].to = after
  /\ \A i \in 2..Len(moves) : moves[i].from = moves[i - 1].to
  /\ \A i \in 1..Len(moves) :
       moves[i].to = HEADER =>
         moves[i].segments
           = count + Cardinality({j \in 1..i : moves[j].to = HEADER})

\* The bytes given hold what the move out of the preamble needs: the
\* boundary followed by CRLF, or by "--"
FirstBoundaryGiven(bytes, moves) ==
  \A i \in 1..Len(moves) :
    moves[i].from = PREAMBLE =>
      Find(bytes, DASHDASH \o Boundary
                    \o (IF moves[i].to = HEADER THEN CRLF ELSE DASHDASH), 0) > -1

\* The buffer holds the first boundary, at its start or after CRLF, and
\* fewer than two bytes after it
BoundaryAtEnd(buffer) ==
  With(Find(buffer, DASHDASH \o Boundary, 0), LAMBDA index :
    /\ index > -1
    /\ index = 0 \/ (index >= 2 /\ Slice(buffer, index - 2, index) = CRLF)
    /\ Len(buffer) < index + Len(DASHDASH \o Boundary) + 2)

\* The call about to be made runs the loop in the PREAMBLE state
PreambleCall(p, data) ==
  /\ p.state = PREAMBLE
  /\ ~p.closed
  /\ data # <<>>
  /\ ~ContentLengthExceeded(p, data)

\* The five transitions and nothing else, in every call
OnlyAllowedMoves ==
  /\ (parser'.state # parser.state \/ (op' = "parse" /\ emitted' # <<>>)) =>
       \A i \in 1..Len(parser'.moved) : AllowedMove(parser'.moved[i])
  /\ parser'.state # parser.state =>
       /\ op' = "parse"
       /\ Chained(parser.state, Len(segments), parser'.moved, parser'.state)
       /\ FirstBoundaryGiven(IF raised' = None THEN Slice(input, 0, pos') ELSE input,
                             parser'.moved)

\* C31 as stated: every change of the state is one of the five transitions
\* with its event, and in PREAMBLE a first boundary with fewer than two bytes
\* after it causes no transition and no error.
TransitionsAsStated ==
  [][/\ OnlyAllowedMoves
     /\ (op' = "parse" /\ PreambleCall(parser, chunk')
           /\ BoundaryAtEnd(parser.buffer \o chunk')) =>
          (raised' = None /\ parser'.state = PREAMBLE)]_vars

\* C31: every change of the state is one of the five transitions with its
\* event, and in PREAMBLE a first boundary with fewer than two bytes after
\* it causes no transition, and no error unless the one byte after it is LF.
Transitions ==
  [][/\ OnlyAllowedMoves
     /\ (op' = "parse" /\ PreambleCall(parser, chunk')
           /\ BoundaryAtEnd(parser.buffer \o chunk')) =>
          /\ parser'.state = PREAMBLE
          /\ raised' # None =>
               /\ The(raised') = ParserError("Invalid line break after first boundary")
               /\ parser.buffer \o chunk'
                    = Slice(parser.buffer \o chunk', 0,
                            Len(parser.buffer \o chunk') - 1) \o <<LF>>]_vars

\* One call has taken the parser from the preamble through a whole segment
\* to the end of the stream
ThroughSegment ==
  /\ Len(parser.moved) = 3
  /\ parser.moved[1].from = PREAMBLE
  /\ parser.moved[3].to = COMPLETE
  /\ parser.state = COMPLETE
  /\ op = "parse"
  /\ raised = None

\* The parser waits in the preamble with the first boundary and one byte
\* after it
BoundaryAwaited ==
  /\ parser.state = PREAMBLE
  /\ ~parser.closed
  /\ firstError = None
  /\ BoundaryAtEnd(parser.buffer)
  /\ Len(parser.buffer) > Find(parser.buffer, DASHDASH \o Boundary, 0) + Len(DASHDASH \o Boundary)


(***************************************************************************)
(* close                                                                   *)
(***************************************************************************)
\* C32: close(check_complete=False) never raises; after every close call,
\* parse(b"") included, the parser is closed, its buffer is empty and it has
\* no current segment, and that stays so under every later call; close leaves
\* the state, the parsed count, the segment count and a latched error as
\* they are.
CloseSemantics ==
  [][/\ op' = "abort" => raised' = None
     /\ (op' \in {"close", "abort", "eof"} \/ parser.closed) =>
          /\ parser'.closed
          /\ parser'.buffer = <<>>
          /\ parser'.current = None
     /\ op' \in {"close", "abort", "eof"} =>
          /\ parser'.state = parser.state
          /\ parser'.parsed = parser.parsed
          /\ parser'.fieldcount = parser.fieldcount
          /\ segments' = segments
          /\ parser.error # None => parser'.error = parser.error]_vars

\* A parser closed in the body of a segment, with parsed bytes and without
\* an error, has refused a chunk
ParsedAfterClose ==
  /\ parser.closed
  /\ parser.state = BODY
  /\ parser.parsed > 0
  /\ op = "parse"
  /\ raised = Some(ParserStateError("Parser closed"))
  /\ firstError = raised


(***************************************************************************)
(* The size of a segment and the body emitted for it                       *)
(***************************************************************************)
\* The place in the events st of the event that announced segment k, or 0
AnnouncedIn(st, k) ==
  IF \E i \in 1..Len(st) : st[i].kind = "segment" /\ st[i].seg = k
  THEN CHOOSE i \in 1..Len(st) : st[i].kind = "segment" /\ st[i].seg = k
  ELSE 0

\* The number of body bytes the events st, body chunks joined, hold for
\* segment k
BodyLength(st, k) ==
  IF AnnouncedIn(st, k) > 0 /\ AnnouncedIn(st, k) < Len(st)
     /\ st[AnnouncedIn(st, k) + 1].kind = "data"
  THEN Len(st[AnnouncedIn(st, k) + 1].data)
  ELSE 0

\* At the yields of a body chunk and of the end of a segment in the call
\* that gave the events out and the snapshots shots after the events
\* before, the size of the current segment is the length of the body
\* emitted for it up to that yield
SizeAtYields(before, out, shots) ==
  \A i \in 1..Len(out) :
    out[i].kind \in {"data", "end"} =>
      shots[i].segment.size
        = BodyLength(Joined(before, SubSeq(out, 1, i)), The(shots[i].current))

\* The size of a complete segment stays
CompleteSizeStays ==
  \A k \in 1..Len(segments) :
    segments[k].complete => segments'[k].size = segments[k].size

\* C33 as stated: at the yield of every body chunk and of every end of a
\* segment, and in every state after it, the size of the segment is the
\* length of the body emitted for it so far; the size of a complete segment
\* never changes.
SizeIsEmittedAlways ==
  [][/\ (op' = "parse" /\ emitted' # <<>>) =>
          SizeAtYields(stream, emitted', parser'.yielded)
     /\ \A k \in 1..Len(segments') :
          BodyLength(stream', k) > 0 => segments'[k].size = BodyLength(stream', k)
     /\ CompleteSizeStays]_vars

\* C33: at the yield of every body chunk and of every end of a segment the
\* size of the segment is the length of the body emitted for it so far, and
\* so it is in every state after it, but for the segment a size error was
\* raised for, whose size counts the bytes that were refused; the size of a
\* complete segment never changes.
SizeIsEmitted ==
  [][/\ (op' = "parse" /\ emitted' # <<>>) =>
          SizeAtYields(stream, emitted', parser'.yielded)
     /\ \A k \in 1..Len(segments') :
          BodyLength(stream', k) > 0 =>
            IF k = Len(segments') /\ firstError' # None
               /\ The(firstError').msg \in {"Segment Content-Length exceeded",
                                            "Maximum segment size exceeded"}
            THEN segments'[k].size > BodyLength(stream', k)
            ELSE segments'[k].size = BodyLength(stream', k)
     /\ CompleteSizeStays]_vars

\* The body of a segment has been emitted in two calls and its end in the
\* second
BodyInTwoCalls ==
  /\ op = "parse"
  /\ Len(emitted) >= 2
  /\ emitted[1].kind = "data"
  /\ emitted[2].kind = "end"
  /\ segments[1].complete
  /\ segments[1].size > Len(emitted[1].data)
  /\ segments[1].size = BodyLength(stream, 1)


(***************************************************************************)
(* Quoting for Content-Disposition                                         *)
(*                                                                         *)
(* A caller quotes a value and unquotes the result: input is the value,    *)
(* chunk its quoted form and bodies holds what the unquoting gives back.   *)
(***************************************************************************)
\* The longest value that is quoted
MaxQuoted == 3

\* The characters of the values: those of the three escapes, the characters
\* the escapes stand for, the backslash of the legacy quoting and a letter
QuotedChars == {"%", "0", "D", "A", "2", QUOTE, CR, LF, BACKSLASH, "x"}

QuotedValues == UNION {[1..n -> QuotedChars] : n \in 0..MaxQuoted}

InitQuote ==
  /\ input \in QuotedValues
  /\ bodies = <<>>
  /\ pos = 0
  /\ parser = NewParser(Boundary, -1, DefaultMaxHeaderSize, DefaultMaxHeaderCount,
                        inf, inf, FALSE)
  /\ segments = <<>>
  /\ op = "init"
  /\ chunk = <<>>
  /\ emitted = <<>>
  /\ raised = None
  /\ stream = <<>>
  /\ firstError = None
  /\ ended = FALSE
  /\ loose = None
  /\ form = None
  /\ iteration = None

\* quoted = content_disposition_quote(value)
QuoteValue ==
  /\ op = "init"
  /\ chunk' = content_disposition_quote(input)
  /\ op' = "content_disposition_quote"
  /\ UNCHANGED <<input, bodies, pos, parser, segments, emitted, raised, stream,
                 firstError, ended, loose, form, iteration>>

\* content_disposition_unquote(quoted)
UnquoteValue ==
  /\ op = "content_disposition_quote"
  /\ bodies' = <<content_disposition_unquote(chunk, FALSE)>>
  /\ op' = "content_disposition_unquote"
  /\ UNCHANGED <<input, pos, parser, segments, chunk, emitted, raised, stream,
                 firstError, ended, loose, form, iteration>>

NextQuote == QuoteValue \/ UnquoteValue

SpecQuote == InitQuote /\ [][NextQuote]_vars

\* The value holds one of the three escapes as it stands
HoldsEscape(val) ==
  \/ Contains(val, <<"%", "0", "D">>)
  \/ Contains(val, <<"%", "0", "A">>)
  \/ Contains(val, <<"%", "2", "2">>)

\* C34 as stated: unquoting the quoted form of any value gives the value.
QuoteRoundTripAlways ==
  op = "content_disposition_unquote" => bodies = <<input>>

\* C34: unquoting the quoted form of a value gives the value exactly when the
\* value holds none of the escapes %0D, %0A and %22 as it stands; the quoted
\* form is the value between double quotes with every CR, LF and double
\* quote replaced by its escape.
QuoteRoundTrip ==
  /\ op = "content_disposition_unquote" =>
       (bodies = <<input>> <=> ~HoldsEscape(input))
  /\ op # "init" =>
       /\ Len(chunk) >= 2
       /\ chunk[1] = QUOTE
       /\ chunk[Len(chunk)] = QUOTE
       /\ \A i \in 2..(Len(chunk) - 1) : chunk[i] \notin {CR, LF, QUOTE}

\* A value of a CR, a double quote and a backslash has come back
EscapesInverted ==
  /\ op = "content_disposition_unquote"
  /\ input = <<CR, QUOTE, BACKSLASH>>
  /\ chunk = <<QUOTE, "%", "0", "D", "%", "2", "2", BACKSLASH, QUOTE>>
  /\ bodies = <<input>>


(***************************************************************************)
(* Iterating over a MultipartParser                                        *)
(*                                                                         *)
(* The object keeps _done, the parts yielded so far, and _part_iter, the   *)
(* one generator of _iterparse: taken counts the parts it has yielded and  *)
(* made the generators of _iterparse that were ever created.  Every        *)
(* iter(parser) is a generator of __iter__: it has not started, or it is   *)
(* in "yield from self._done" with the list iterator at index at, or in    *)
(* the loop over _part_iter, or it has stopped; out is what it has yielded.*)
(* A for-loop, get, get_all and parts are calls of next on such a          *)
(* generator, abandoned at some point or not.                              *)
(***************************************************************************)
\* The most iterators made of one object
MaxIterators == 3

\* What _iterparse yields for the body, read in one chunk as it is with the
\* default buffer_size
PartsOf(body) ==
  IterTurn(MultipartParser(body, Boundary, -1, DefaultLimits),
           PushParserOf(MultipartParser(body, Boundary, -1, DefaultLimits)),
           <<>>, IterStart, body).st

\* The bodies that _iterparse goes through without an exception
IterBodies == {body \in FormBodies : PartsOf(body).err = None}

InitIter ==
  \E body \in IterBodies :
    /\ input = body
    /\ bodies = <<>>
    /\ pos = 0
    /\ parser = PushParserOf(MultipartParser(body, Boundary, -1, DefaultLimits))
    /\ segments = <<>>
    /\ op = "init"
    /\ chunk = <<>>
    /\ emitted = <<>>
    /\ raised = None
    /\ stream = <<>>
    /\ firstError = None
    /\ ended = FALSE
    /\ loose = None
    /\ form = None
    /\ iteration = Some([parts |-> PartsOf(body).done, done |-> <<>>,
                         part_iter |-> FALSE, taken |-> 0, made |-> 0,
                         iterators |-> <<>>])

\* iter(parser): a generator of __iter__ that has not run yet
NewIterator ==
  /\ Len(The(iteration).iterators) < MaxIterators
  /\ iteration' = Some([The(iteration) EXCEPT
                          !.iterators = Append(@, [pc |-> "start", at |-> 0,
                                                   out |-> <<>>])])
  /\ op' = "iter"
  /\ UNCHANGED <<input, bodies, pos, parser, segments, chunk, emitted, raised,
                 stream, firstError, ended, loose, form>>

\* for part in self._part_iter: self._done.append(part); yield part
FromPartIter(it, g) ==
  IF it.taken < Len(it.parts)
  THEN [it EXCEPT !.taken = @ + 1,
                  !.done = Append(@, it.parts[it.taken + 1]),
                  !.iterators[g].pc = "loop",
                  !.iterators[g].out = Append(@, it.parts[it.taken + 1])]
  ELSE [it EXCEPT !.iterators[g].pc = "stopped"]

\* yield from self._done: the next element of the list as it is now, or on
\* to the loop when the list iterator is at its end
FromDone(it, g) ==
  IF it.iterators[g].at < Len(it.done)
  THEN [it EXCEPT !.iterators[g].pc = "done",
                  !.iterators[g].at = @ + 1,
                  !.iterators[g].out = Append(@, it.done[it.iterators[g].at + 1])]
  ELSE FromPartIter(it, g)

\* if not self._part_iter: self._part_iter = self._iterparse()
Started(it) ==
  IF it.part_iter THEN it ELSE [it EXCEPT !.part_iter = TRUE, !.made = @ + 1]

\* next(iterator) on the g-th generator of __iter__
NextPart(it, g) ==
  IF it.iterators[g].pc = "start"
  THEN IF it.done # <<>> THEN FromDone(Started(it), g)
       ELSE FromPartIter(Started(it), g)
  ELSE IF it.iterators[g].pc = "done" THEN FromDone(it, g)
  ELSE FromPartIter(it, g)

Advance ==
  \E g \in 1..Len(The(iteration).iterators) :
    /\ The(iteration).iterators[g].pc # "stopped"
    /\ iteration' = Some(NextPart(The(iteration), g))
    /\ op' = "next"
    /\ UNCHANGED <<input, bodies, pos, parser, segments, chunk, emitted, raised,
                   stream, firstError, ended, loose, form>>

NextIter == NewIterator \/ Advance

SpecIter == InitIter /\ [][NextIter]_vars

\* C35: every iteration over the object that has run to its end has yielded
\* every part of the stream once and in stream order, whatever the other
\* iterations did, and _iterparse was started at most once.
IterationComplete ==
  /\ The(iteration).made <= 1
  /\ \A g \in 1..Len(The(iteration).iterators) :
       The(iteration).iterators[g].pc = "stopped" =>
         The(iteration).iterators[g].out = The(iteration).parts


(***************************************************************************)
(* C36: the buffer kept between calls                                      *)
(***************************************************************************)
\* The window the parser may keep: a delimiter and two bytes, or a header line
Window == Max({Len(parser.delimiter) + 2, parser.max_header_size})

\* C36: between the calls, in every state, the buffer the parser keeps is no
\* longer than max(len(delimiter) + 2, max_header_size), whatever the sizes of
\* the chunks pushed
BufferBounded == Len(parser.buffer) <= Window

\* The buffer is bounded while the parser waits for more of a part
BufferBoundedBeforeComplete ==
  parser.state # COMPLETE => Len(parser.buffer) <= Window


(***************************************************************************)
(* C37: a strict parser and one that is not, given the same calls          *)
(***************************************************************************)
\* The streams both parsers are given: framed, whole and broken ones, bodies
\* with a false boundary, continuation lines, Content-Disposition headers of
\* every kind, bare line feeds, and long epilogues
StrictScenarios ==
  {Unlimited(sc.input, sc.bodies, TRUE) :
     sc \in FramedScenarios \cup CoreScenarios \cup BrokenScenarios}
  \cup {Unlimited(OnePart(b), <<b>>, TRUE) : b \in FalseBodies}
  \cup {[sc EXCEPT !.strict = TRUE] :
          sc \in ContinuationScenarios \cup DispositionScenarios
                 \cup LineBreakScenarios \cup EpilogueScenarios}

\* The first parser is strict, the second is not; they differ in nothing else
InitStrict ==
  \E sc \in StrictScenarios, clen \in {0, 1} :
    /\ input = sc.input
    /\ bodies = sc.bodies
    /\ pos = 0
    /\ parser = [ParserOf(sc) EXCEPT !.content_length = IF clen = 1 THEN Len(sc.input) ELSE -1]
    /\ segments = <<>>
    /\ op = "init"
    /\ chunk = <<>>
    /\ emitted = <<>>
    /\ raised = None
    /\ stream = <<>>
    /\ firstError = None
    /\ ended = FALSE
    /\ loose = Some([parser |-> [ParserOf(sc) EXCEPT
                                   !.strict = FALSE,
                                   !.content_length = IF clen = 1 THEN Len(sc.input) ELSE -1],
                     segments |-> <<>>, emitted |-> <<>>, stream |-> <<>>,
                     firstError |-> None])
    /\ form = None
    /\ iteration = None

SpecStrict == InitStrict /\ [][NextPair]_vars

\* The strict parser has accepted the input: it is in COMPLETE and no call, the
\* end-of-input push included, has raised
StrictAccepted ==
  /\ parser.strict
  /\ op = "eof"
  /\ firstError = None
  /\ parser.state = COMPLETE

\* C37: strict mode only removes behaviours.  As long as the strict parser has
\* raised nothing, the parser that is not strict has raised nothing, is in the
\* same state and has emitted the same events in every call; so when the
\* strict parser has accepted the input (COMPLETE, and the end-of-input push
\* raised nothing), the other has accepted it too, with the same events
StrictOnlyRemoves ==
  (parser.strict /\ ~The(loose).parser.strict /\ firstError = None) =>
    /\ The(loose).firstError = None
    /\ The(loose).parser.state = parser.state
    /\ The(loose).parser.closed = parser.closed
    /\ The(loose).emitted = emitted
    /\ The(loose).stream = stream
    /\ The(loose).segments = segments
    /\ StrictAccepted => The(loose).parser.state = COMPLETE

\* Both have accepted a stream with a segment, pushed in more than one chunk
StrictAcceptedSegment ==
  /\ StrictAccepted
  /\ The(loose).firstError = None
  /\ Len(segments) >= 1
  /\ pos = Len(input)
  /\ \E i \in 1..Len(stream) : stream[i].kind = "data"

\* The strict parser has raised in a call that the other one accepted
StrictRemoved ==
  /\ parser.strict
  /\ firstError # None
  /\ The(loose).firstError = None
  /\ The(loose).parser.state = COMPLETE
  /\ op = "eof"


(***************************************************************************)
(* C38: the outcome and the chunks                                         *)
(***************************************************************************)
\* A parser constructed as p was
Fresh(p) ==
  NewParser(p.boundary, p.content_length, p.max_header_size, p.max_header_count,
            p.max_segment_size, p.max_segment_count, p.strict)

\* How a run ended: "success", or the class of the error it raised
Ending(err) == IF err = None THEN "success" ELSE The(err).type

\* The outcome of pushing the whole input as one chunk and then parse(b"")
WholeOutcome ==
  With(parse(Fresh(parser), <<>>, input),
       LAMBDA whole :
         IF whole.err # None THEN Ending(whole.err)
         ELSE Ending(parse(whole.p, whole.segs, <<>>).err))

\* The call that decides the outcome of a run: the first push that raises, or
\* the end-of-input push after the whole input was pushed without an error
OutcomeStep ==
  /\ (~ended /\ firstError = None /\ op' = "parse" /\ firstError' # None) =>
       Ending(firstError') = WholeOutcome
  /\ (~ended /\ firstError = None /\ pos = Len(input) /\ op' = "eof") =>
       Ending(firstError') = WholeOutcome

\* C38: whether pushing a byte sequence and then the end of input succeeds or
\* raises, and the class of the error, is the same for every partition of the
\* sequence into chunks: it is what pushing it as one chunk gives
OutcomeIndependent == [][OutcomeStep]_vars


(***************************************************************************)
(* C39: the content length and the bytes accepted                          *)
(***************************************************************************)
\* C39: with content_length >= 0 the chunks that parse accepted without
\* raising are together no longer than content_length, in every state; while
\* the parser is open and not in COMPLETE, parsed + len(buffer) is their length
ContentLengthCap ==
  /\ parser.content_length >= 0 => pos <= parser.content_length
  /\ (~parser.closed /\ parser.state # COMPLETE) =>
       parser.parsed + Len(parser.buffer) = pos

\* The cap holds until the parser is in COMPLETE, and the bytes are counted
AcceptedBeforeComplete ==
  (~parser.closed /\ parser.state # COMPLETE) =>
    /\ parser.parsed + Len(parser.buffer) = pos
    /\ parser.content_length >= 0 => pos <= parser.content_length

\* parsed never decreases
ParsedGrows == [][parser'.parsed >= parser.parsed]_vars

====
